---------------------------- MODULE Spec2Model ----------------------------
(***************************************************************************)
(* Deskflow API worker: the version cache (primary KV store, secondary     *)
(* SlowKV store, release resolver) and the popularity contest (vote        *)
(* ledger per requester address, monthly statistics bucket).               *)
(*                                                                         *)
(* Strings of the program are sequences of one-character strings, so that  *)
(* includes / split / trim / replace / slice act on their characters.      *)
(* Time is the Unix time in seconds; toISOString is the civil date of it.  *)
(***************************************************************************)
EXTENDS Integers, Sequences, FiniteSets, Bags, TLC

VARIABLES
    now,          \* the clock: Date.now(), in seconds since the Unix epoch
    ticks,        \* how many times the clock has advanced
    nreq,         \* how many requests have been received
    kv,           \* env.APP_VERSION (Workers KV), key 'latest'
    kvAvailable,  \* whether env.APP_VERSION.put succeeds (quota / rate limit)
    slowVersion,  \* SlowKV storage, key 'version'
    slowStats,    \* SlowKV storage, the month keys: monthKey -> Stats
    votesStore,   \* VotesByIP storage: ip -> list of votes
    releases,     \* what the upstream repository lists, newest first
    rq,           \* the requests being handled, one per invocation slot
    seen          \* history: what hasVoted was asked and what recordVote stored

vars == <<now, ticks, nreq, kv, kvAvailable, slowVersion, slowStats,
          votesStore, releases, rq, seen>>

-----------------------------------------------------------------------------
(* Bounds of the model.                                                    *)

MaxTicks == 2

MaxRequests == 3

\* How many votes are received when they are handled concurrently.
MaxVoteRequests == 2

\* How many requests are received when they are handled one at a time.
MaxSeqRequests == 4

MaxReleases == 2

\* How long the tags are that the normalization is tried on.
MaxTagLen == 4

\* How many requests arrive where the user agents are many.
MaxParseRequests == 1

-----------------------------------------------------------------------------
(* Program constants.                                                      *)

cacheAgeSeconds == 300

cacheAgeSeconds002 == 120

releasesPerPage == 20

releasesPerPage002 == 10

SecondsPerDay == 24 * 60 * 60

\* 2024-12-31T23:55:00Z: five minutes before a day, month and year boundary.
StartTime == 1735689300

-----------------------------------------------------------------------------
(* Strings.                                                                *)

None == <<"\\null">>

Min(S) == CHOOSE x \in S : \A y \in S : x <= y

Max(S) == CHOOSE x \in S : \A y \in S : x >= y

UpperCase == <<"A","B","C","D","E","F","G","H","I","J","K","L","M",
               "N","O","P","Q","R","S","T","U","V","W","X","Y","Z">>

LowerCase == <<"a","b","c","d","e","f","g","h","i","j","k","l","m",
               "n","o","p","q","r","s","t","u","v","w","x","y","z">>

Digits == <<"0","1","2","3","4","5","6","7","8","9">>

toLowerCase(s) ==
    [i \in 1..Len(s) |->
        IF \E k \in 1..26 : UpperCase[k] = s[i]
        THEN LowerCase[CHOOSE k \in 1..26 : UpperCase[k] = s[i]]
        ELSE s[i]]

\* String.prototype.includes
includes(s, sub) ==
    \E i \in 1..(Len(s) - Len(sub) + 1) : SubSeq(s, i, i + Len(sub) - 1) = sub

\* Whether sub occurs in s at position i.
At(s, i, sub) ==
    /\ i >= 1
    /\ i + Len(sub) - 1 <= Len(s)
    /\ SubSeq(s, i, i + Len(sub) - 1) = sub

\* String.prototype.trim for the white space a header can hold.
RECURSIVE trimStart(_)
trimStart(s) ==
    IF s /= <<>> /\ Head(s) \in {" ", "\t"} THEN trimStart(Tail(s)) ELSE s

RECURSIVE trimEnd(_)
trimEnd(s) ==
    IF s /= <<>> /\ s[Len(s)] \in {" ", "\t"}
    THEN trimEnd(SubSeq(s, 1, Len(s) - 1))
    ELSE s

trim(s) == trimEnd(trimStart(s))

\* String.prototype.split(sep) for a one-character separator: the pieces
\* between the separators, empty pieces included.
RECURSIVE split(_, _)
split(s, sep) ==
    IF \A i \in 1..Len(s) : s[i] /= sep
    THEN <<s>>
    ELSE LET i == Min({k \in 1..Len(s) : s[k] = sep})
         IN  <<SubSeq(s, 1, i - 1)>> \o split(SubSeq(s, i + 1, Len(s)), sep)

\* metadata[i] ?? null, for a 0-based index i.
Index(list, i) == IF i + 1 <= Len(list) THEN list[i + 1] ELSE None

\* The truthiness of a string | null: null and '' are falsy.
Truthy(s) == s /= None /\ s /= <<>>

-----------------------------------------------------------------------------
(* Dates: new Date().toISOString() and its slices.                         *)

\* The civil date (UTC) of a day number counted from 1970-01-01.
CivilFromDays(days) ==
    LET z   == days + 719468
        era == z \div 146097
        doe == z - era * 146097
        yoe == (doe - doe \div 1460 + doe \div 36524 - doe \div 146096) \div 365
        doy == doe - (365 * yoe + yoe \div 4 - yoe \div 100)
        mp  == (5 * doy + 2) \div 153
        d   == doy - (153 * mp + 2) \div 5 + 1
        m   == IF mp < 10 THEN mp + 3 ELSE mp - 9
        y   == yoe + era * 400 + (IF m <= 2 THEN 1 ELSE 0)
    IN  <<y, m, d>>

\* The day number of a civil date.
DaysFromCivil(ymd) ==
    LET y   == IF ymd[2] <= 2 THEN ymd[1] - 1 ELSE ymd[1]
        era == y \div 400
        yoe == y - era * 400
        mp  == IF ymd[2] > 2 THEN ymd[2] - 3 ELSE ymd[2] + 9
        doy == (153 * mp + 2) \div 5 + ymd[3] - 1
        doe == yoe * 365 + yoe \div 4 - yoe \div 100 + doy
    IN  era * 146097 + doe - 719468

\* Date.prototype.toISOString: YYYY-MM-DD and the time of the day.
toISOString(t) ==
    [date |-> CivilFromDays(t \div SecondsPerDay), time |-> t % SecondsPerDay]

\* new Date(isoText).getTime()
getTime(iso) == DaysFromCivil(iso.date) * SecondsPerDay + iso.time

\* isoText.slice(0, 10): "YYYY-MM-DD"
isoDay(iso) == iso.date

\* isoText.substring(0, 7): "YYYY-MM"
isoMonth(iso) == <<iso.date[1], iso.date[2]>>

-----------------------------------------------------------------------------
(* The user agent.                                                         *)

Deskflow == <<"D","e","s","k","f","l","o","w">>

\* A classification that compares the token as it is written.
getOsFamilyAsWritten(os) ==
    IF os = None \/ os = <<>> THEN None
    ELSE IF includes(os, <<"w","i","n","d","o","w","s">>) THEN <<"W","i","n","d","o","w","s">>
    ELSE IF includes(os, <<"m","a","c","o","s">>) THEN <<"m","a","c","O","S">>
    ELSE IF includes(os, <<"l","i","n","u","x">>) \/ includes(os, <<"f","l","a","t","p","a","k">>)
         THEN <<"L","i","n","u","x">>
    ELSE IF includes(os, <<"b","s","d">>) THEN <<"B","S","D">>
    ELSE <<"O","t","h","e","r">>

\* function getOsFamily(os)
getOsFamily(os) ==
    IF os = None THEN None
    ELSE LET lower == toLowerCase(os)
         IN  IF lower = <<>> THEN None
             ELSE IF includes(lower, <<"w","i","n","d","o","w","s">>)
                  THEN <<"W","i","n","d","o","w","s">>
             ELSE IF includes(lower, <<"m","a","c","o","s">>)
                  THEN <<"m","a","c","O","S">>
             ELSE IF \E term \in {<<"l","i","n","u","x">>,
                                  <<"f","l","a","t","p","a","k">>} :
                         includes(lower, term)
                  THEN <<"L","i","n","u","x">>
             ELSE IF includes(lower, <<"b","s","d">>)
                  THEN <<"B","S","D">>
             ELSE <<"O","t","h","e","r">>

\* The matches of /Deskflow\/(.+) \((.+)\)/ that start at i: <<j, k>> with
\* group 1 = s[i+9 .. j-1], " (" at j, group 2 = s[j+2 .. k-1], ")" at k.
Rfc9110At(s, i) ==
    IF ~At(s, i, Deskflow \o <<"/">>) THEN {}
    ELSE {jk \in ((i + 10)..Len(s)) \X ((i + 13)..Len(s)) :
            /\ At(s, jk[1], <<" ", "(">>)
            /\ jk[2] >= jk[1] + 3
            /\ s[jk[2]] = ")"}

\* rfc9110.test(userAgent)
Rfc9110Test(s) == \E i \in 1..Len(s) : Rfc9110At(s, i) /= {}

\* rfc9110.exec(userAgent)[2]: the leftmost match, both groups greedy.
Rfc9110Group2(s) ==
    LET i == Min({x \in 1..Len(s) : Rfc9110At(s, x) /= {}})
        j == Max({jk[1] : jk \in Rfc9110At(s, i)})
        k == Max({jk[2] : jk \in {m \in Rfc9110At(s, i) : m[1] = j}})
    IN  SubSeq(s, j + 2, k - 1)

\* The matches of /Deskflow .+ on (.+)/ that start at i: the positions j of
\* " on " with at least one character before and after it.
LegacyAt(s, i) ==
    IF ~At(s, i, Deskflow \o <<" ">>) THEN {}
    ELSE {j \in (i + 10)..Len(s) :
            /\ At(s, j, <<" ", "o", "n", " ">>)
            /\ j + 4 <= Len(s)}

\* /Deskflow .+ on (.+)/.exec(userAgent)?.[1] ?? null
LegacyOs(s) ==
    IF \A i \in 1..Len(s) : LegacyAt(s, i) = {}
    THEN None
    ELSE LET i == Min({x \in 1..Len(s) : LegacyAt(s, x) /= {}})
             j == Max(LegacyAt(s, i))
         IN  SubSeq(s, j + 4, Len(s))

\* The null that parseUserAgent returns for a string without the marker.
NoParse ==
    [isNull |-> TRUE, os |-> None, osFamily |-> None,
     appLanguage |-> None, appVersion |-> None]

\* A parser that does not look for the marker.
parseUserAgentAnyClient(userAgent, headers) ==
    IF Rfc9110Test(userAgent)
    THEN LET parts2   == Rfc9110Group2(userAgent)
             raw      == split(parts2, ";")
             metadata == [i \in 1..Len(raw) |-> trim(raw[i])]
         IN  [isNull      |-> FALSE,
              os          |-> Index(metadata, 0),
              osFamily    |-> getOsFamily(Index(metadata, 1)),
              appLanguage |-> Index(metadata, 3),
              appVersion  |-> Index(metadata, 2)]
    ELSE LET os == LegacyOs(userAgent)
         IN  [isNull      |-> FALSE,
              os          |-> os,
              osFamily    |-> getOsFamily(os),
              appLanguage |-> headers.language,
              appVersion  |-> headers.version]

\* A parser that takes the language from position 2 and the version from
\* position 3.
parseUserAgentSwapped(userAgent, headers) ==
    IF ~includes(userAgent, Deskflow) THEN NoParse
    ELSE IF Rfc9110Test(userAgent)
    THEN LET parts2   == Rfc9110Group2(userAgent)
             raw      == split(parts2, ";")
             metadata == [i \in 1..Len(raw) |-> trim(raw[i])]
         IN  [isNull      |-> FALSE,
              os          |-> Index(metadata, 0),
              osFamily    |-> getOsFamily(Index(metadata, 1)),
              appLanguage |-> Index(metadata, 2),
              appVersion  |-> Index(metadata, 3)]
    ELSE LET os == LegacyOs(userAgent)
         IN  [isNull      |-> FALSE,
              os          |-> os,
              osFamily    |-> getOsFamily(os),
              appLanguage |-> headers.language,
              appVersion  |-> headers.version]

\* A parser that lets the two headers pass before the structured string.
parseUserAgentHeadersToo(userAgent, headers) ==
    IF ~includes(userAgent, Deskflow) THEN NoParse
    ELSE IF Rfc9110Test(userAgent)
    THEN LET parts2   == Rfc9110Group2(userAgent)
             raw      == split(parts2, ";")
             metadata == [i \in 1..Len(raw) |-> trim(raw[i])]
         IN  [isNull      |-> FALSE,
              os          |-> Index(metadata, 0),
              osFamily    |-> getOsFamily(Index(metadata, 1)),
              appLanguage |-> IF headers.language /= None
                              THEN headers.language ELSE Index(metadata, 3),
              appVersion  |-> IF headers.version /= None
                              THEN headers.version ELSE Index(metadata, 2)]
    ELSE LET os == LegacyOs(userAgent)
         IN  [isNull      |-> FALSE,
              os          |-> os,
              osFamily    |-> getOsFamily(os),
              appLanguage |-> headers.language,
              appVersion  |-> headers.version]

\* function parseUserAgent(userAgent, headers).  The throw of line 218
\* follows a successful test of the same expression on the same string, so
\* exec never returns null there.
parseUserAgent(userAgent, headers) ==
    IF ~includes(userAgent, Deskflow) THEN NoParse
    ELSE IF Rfc9110Test(userAgent)
    THEN LET parts2   == Rfc9110Group2(userAgent)
             raw      == split(parts2, ";")
             metadata == [i \in 1..Len(raw) |-> trim(raw[i])]
         IN  [isNull      |-> FALSE,
              os          |-> Index(metadata, 0),
              osFamily    |-> getOsFamily(Index(metadata, 1)),
              appLanguage |-> Index(metadata, 3),
              appVersion  |-> Index(metadata, 2)]
    ELSE LET os == LegacyOs(userAgent)
         IN  [isNull      |-> FALSE,
              os          |-> os,
              osFamily    |-> getOsFamily(os),
              appLanguage |-> headers.language,
              appVersion  |-> headers.version]

-----------------------------------------------------------------------------
(* JavaScript objects with string keys: the sequence of <<key, value>> in  *)
(* the order the properties are enumerated (Object.entries, JSON.stringify)*)
(* : the keys that are array indices ("0", "7", "12") in ascending numeric *)
(* order first, then the other keys in the order they were created.        *)
(* An optional value (number | undefined, object | undefined) is <<>> for  *)
(* undefined and <<v>> for v.                                              *)

\* Whether key is a canonical numeric string (an array index).
IsArrayIndex(key) ==
    /\ key /= <<>>
    /\ Len(key) <= 9
    /\ \A i \in 1..Len(key) : \E d \in 1..10 : Digits[d] = key[i]
    /\ (Len(key) > 1 => key[1] /= "0")

DigitOf(c) == (CHOOSE d \in 1..10 : Digits[d] = c) - 1

RECURSIVE ToNumber(_)
ToNumber(key) ==
    IF key = <<>> THEN 0
    ELSE 10 * ToNumber(SubSeq(key, 1, Len(key) - 1)) + DigitOf(key[Len(key)])

HasKey(obj, key) == \E i \in 1..Len(obj) : obj[i][1] = key

\* '__proto__', the accessor of the prototype of an object.
ProtoKey == <<"_","_","p","r","o","t","o","_","_">>

\* Names of members that every object of the worker inherits from
\* Object.prototype: a function, and the accessor of the prototype.
ObjectPrototype == {<<"c","o","n","s","t","r","u","c","t","o","r">>, ProtoKey}

\* A value that is not a number: the text of a member of Object.prototype
\* ('function Object() { [native code] }', '[object Object]') followed by n
\* characters '1'.  The member is told by the key; the text is written as
\* the negative number -(n + 1), the numbers of the model being counts.
MemberText(n) == 0 - (n + 1)

IsNumber(value) == value >= 0

\* value + 1: the sum for a number, the text with '1' appended for a text.
PlusOne(value) == IF IsNumber(value) THEN value + 1 ELSE value - 1

\* obj[key] ?? dflt: the own property, or else the inherited member, which
\* is not nullish; (member ?? dflt) + 1 then starts from the member's text.
GetOr(obj, key, dflt) ==
    IF HasKey(obj, key)
    THEN obj[CHOOSE i \in 1..Len(obj) : obj[i][1] = key][2]
    ELSE IF key \in ObjectPrototype THEN MemberText(0)
    ELSE dflt

\* Where a new key is created: an array index goes before the first array
\* index larger than it and before every other key; another key goes last.
InsertAt(obj, key) ==
    IF IsArrayIndex(key)
    THEN Min({i \in 1..(Len(obj) + 1) :
                 i = Len(obj) + 1
                 \/ ~IsArrayIndex(obj[i][1])
                 \/ ToNumber(obj[i][1]) > ToNumber(key)})
    ELSE Len(obj) + 1

\* The own property key of obj is defined as value (the object that
\* JSON.parse and Object.fromEntries build, and an assignment to a key other
\* than '__proto__').
SetKey(obj, key, value) ==
    IF HasKey(obj, key)
    THEN [i \in 1..Len(obj) |-> IF obj[i][1] = key THEN <<key, value>> ELSE obj[i]]
    ELSE LET at == InsertAt(obj, key)
         IN  SubSeq(obj, 1, at - 1) \o <<<<key, value>>>> \o SubSeq(obj, at, Len(obj))

\* obj[key] = value, for a value that is a number or a text: the setter of
\* '__proto__' ignores a value that is neither an object nor null, and the
\* object is as it was.
Assign(obj, key, value) ==
    IF key = ProtoKey THEN obj ELSE SetKey(obj, key, value)

\* Object.fromEntries(entries)
RECURSIVE fromEntries(_)
fromEntries(entries) ==
    IF entries = <<>> THEN <<>>
    ELSE LET n == Len(entries)
         IN  SetKey(fromEntries(SubSeq(entries, 1, n - 1)), entries[n][1], entries[n][2])

\* b - a > 0: for a text the difference is NaN, which orders nothing.
Less(a, b) == IsNumber(a) /\ IsNumber(b) /\ a < b

\* Array.prototype.sort(([, a], [, b]) => b - a): the sort is stable, so an
\* entry moves only before the entries of a strictly smaller count.
RECURSIVE sortDesc(_)
sortDesc(entries) ==
    IF entries = <<>> THEN <<>>
    ELSE LET n      == Len(entries)
             sorted == sortDesc(SubSeq(entries, 1, n - 1))
             at     == Min({i \in 1..n : i = n \/ Less(sorted[i][2], entries[n][2])})
         IN  SubSeq(sorted, 1, at - 1) \o <<entries[n]>> \o SubSeq(sorted, at, n - 1)

\* function sortByValueDesc(obj)
sortByValueDesc(obj) == fromEntries(sortDesc(obj))

-----------------------------------------------------------------------------
(* The monthly statistics.                                                 *)

\* {} as Stats
EmptyStats == [votes |-> <<>>, os |-> <<>>, osFamily |-> <<>>, language |-> <<>>, version |-> <<>>]

StatsFields == <<"votes", "os", "osFamily", "language", "version">>

\* JSON.stringify(stats): the members that are not undefined, as text.
JSONstringify(stats) ==
    LET member(f) == IF stats[f] = <<>> THEN <<>> ELSE <<<<f, stats[f][1]>>>>
    IN  member("votes") \o member("os") \o member("osFamily")
        \o member("language") \o member("version")

\* JSON.parse(text) as Stats: a member the text lacks is undefined.  The
\* members of an object are created in the order of the text.
JSONparse(text) ==
    LET value(f) ==
            IF \E i \in 1..Len(text) : text[i][1] = f
            THEN LET v == text[CHOOSE i \in 1..Len(text) : text[i][1] = f][2]
                 IN  IF f = "votes" THEN <<v>> ELSE <<fromEntries(v)>>
            ELSE <<>>
    IN  [f \in {StatsFields[i] : i \in 1..Len(StatsFields)} |-> value(f)]

\* A read that answers a month without a bucket with a bucket it has.
getStatsOfAny(storage, key) ==
    IF key \in DOMAIN storage THEN JSONparse(storage[key])
    ELSE IF DOMAIN storage /= {} THEN JSONparse(storage[CHOOSE k \in DOMAIN storage : TRUE])
    ELSE EmptyStats

\* SlowKV.getStats(key): stats ? JSON.parse(stats) : {}
getStats(storage, key) ==
    IF key \in DOMAIN storage THEN JSONparse(storage[key]) ELSE EmptyStats

\* A count that creates the entry of a new value with 0.
CountFromZero(category, value) ==
    IF ~Truthy(value) THEN category
    ELSE LET obj == IF category = <<>> THEN <<>> ELSE category[1]
         IN  <<Assign(obj, value, IF HasKey(obj, value) THEN PlusOne(GetOr(obj, value, 0)) ELSE 0)>>

\* A count of every value that is not null, the empty string too.
CountNonNull(category, value) ==
    IF value = None THEN category
    ELSE LET obj == IF category = <<>> THEN <<>> ELSE category[1]
         IN  <<Assign(obj, value, PlusOne(GetOr(obj, value, 0)))>>

\* stats.<category>[value] = (stats.<category>[value] ?? 0) + 1, for a
\* truthy value; the category is created when undefined.
Count(category, value) ==
    IF ~Truthy(value) THEN category
    ELSE LET obj == IF category = <<>> THEN <<>> ELSE category[1]
         IN  <<Assign(obj, value, PlusOne(GetOr(obj, value, 0)))>>

\* An increment that counts the fields and leaves the vote count as read.
IncrementFieldsOnly(stats, info) ==
    [votes    |-> <<IF stats.votes = <<>> THEN 0 ELSE stats.votes[1]>>,
     os       |-> Count(stats.os, info.os),
     osFamily |-> Count(stats.osFamily, info.osFamily),
     language |-> Count(stats.language, info.appLanguage),
     version  |-> Count(stats.version, info.appVersion)]

\* Lines 296-316 of updatePopularityContest: the bucket after the vote.
Increment(stats, info) ==
    [votes    |-> <<(IF stats.votes = <<>> THEN 0 ELSE stats.votes[1]) + 1>>,
     os       |-> Count(stats.os, info.os),
     osFamily |-> Count(stats.osFamily, info.osFamily),
     language |-> Count(stats.language, info.appLanguage),
     version  |-> Count(stats.version, info.appVersion)]

\* stats.<category> ? sortByValueDesc(stats.<category>) : {}
Sorted(category) == IF category = <<>> THEN <<>> ELSE sortByValueDesc(category[1])

\* function getSortedStats(env, entryKey), on the bucket it read.
getSortedStats(stats) ==
    [votes    |-> stats.votes,
     osFamily |-> Sorted(stats.osFamily),
     os       |-> Sorted(stats.os),
     language |-> Sorted(stats.language),
     version  |-> Sorted(stats.version)]

-----------------------------------------------------------------------------
(* The vote ledger.                                                        *)

\* VotesByIP.findVotes(ip): the stored list, [] when there is none.
findVotes(storage, ip) == IF ip \in DOMAIN storage THEN storage[ip] ELSE <<>>

\* A test that takes a vote of any date for today's.
hasVotedEver(data, userAgent, t) ==
    \E i \in 1..Len(data) : data[i].userAgent = userAgent

\* A test that takes today's vote of any user agent for this one's.
hasVotedAnyAgent(data, userAgent, t) ==
    \E i \in 1..Len(data) : isoDay(data[i].isoDateText) = isoDay(toISOString(t))

\* A test that finds no vote.
hasVotedNever(data, userAgent, t) == FALSE

\* function hasVoted(data, userAgent), with new Date() = t.
hasVoted(data, userAgent, t) ==
    LET today == isoDay(toISOString(t))
    IN  \E i \in 1..Len(data) :
            data[i].userAgent = userAgent /\ isoDay(data[i].isoDateText) = today

\* VotesByIP.recordVote(votes, ip, userAgent), with new Date() = t: the list
\* that is stored under ip.
recordVote(votes, userAgent, t) ==
    votes \o <<[isoDateText |-> toISOString(t), userAgent |-> userAgent]>>

-----------------------------------------------------------------------------
(* The version.                                                            *)

Continuous == <<"c","o","n","t","i","n","u","o","u","s">>

\* A normalization that takes off a leading V as well.
StripVAnyCase(tag) == IF tag /= <<>> /\ tag[1] \in {"v", "V"} THEN Tail(tag) ELSE tag

\* versionRaw.replace(/^v/, '')
StripV(tag) == IF tag /= <<>> /\ tag[1] = "v" THEN Tail(tag) ELSE tag

\* A filter that keeps every release.
filterNothing(list) == list

\* releases.filter((release) => release.tag_name !== 'continuous')
RECURSIVE filterReleases(_)
filterReleases(list) ==
    IF list = <<>> THEN <<>>
    ELSE IF Head(list) /= Continuous
         THEN <<Head(list)>> \o filterReleases(Tail(list))
         ELSE filterReleases(Tail(list))

\* octokit.repos.listReleases({ per_page }): the first page, newest first.
listReleases(upstream, perPage) ==
    SubSeq(upstream, 1, IF Len(upstream) < perPage THEN Len(upstream) ELSE perPage)

\* No record under 'latest'.
NoRecord == [value |-> None, metadata |-> <<>>]

\* A lifetime that still holds at the age of maxAge seconds.
isValidInclusive(fetchedAt, t, maxAge) == t - getTime(fetchedAt) <= maxAge

\* A lifetime that has always ended.
isValidNever(fetchedAt, t, maxAge) == FALSE

\* ageSeconds < cacheAgeSeconds, for the record's fetchedAt and Date.now() = t
isValid(fetchedAt, t, maxAge) == t - getTime(fetchedAt) < maxAge

-----------------------------------------------------------------------------
(* Requests and responses.                                                 *)

NoResponse == [status |-> 0, kind |-> "none", text |-> <<>>, stats |-> <<>>]

Text(status, kind, text) == [status |-> status, kind |-> kind, text |-> text, stats |-> <<>>]

\* request.headers.get('cf-ray') ?? 'unknown'
requestId(request) ==
    IF request.ray = None THEN <<"u","n","k","n","o","w","n">> ELSE request.ray

\* `Server error. Please report this issue with the request ID ${requestId}
\* at ${repoUrl}/issues`
message(id) ==
    LET head == <<"S","e","r","v","e","r"," ","e","r","r","o","r","."," ","P","l","e","a",
          "s","e"," ","r","e","p","o","r","t"," ","t","h","i","s"," ","i","s","s",
          "u","e"," ","w","i","t","h"," ","t","h","e"," ","r","e","q","u","e","s",
          "t"," ","I","D"," ">>
        at   == <<" ","a","t"," ">>
        repoUrl == <<"h","t","t","p","s",":","/","/","g","i","t","h","u","b",".","c","o","m",
          "/","d","e","s","k","f","l","o","w","/","d","e","s","k","f","l","o","w",
          "-","a","p","i">>
        issues  == <<"/","i","s","s","u","e","s">>
    IN  head \o id \o at \o repoUrl \o issues

\* A catch that answers the error's own message after the pointer.
ServerErrorTelling(request, error) ==
    Text(500, error, message(requestId(request)) \o <<error>>)

\* The 500 of fetch's catch, for the error it caught: the error is logged
\* (the kind of the response keeps it), the body is the message.
ServerError(request, error) == Text(500, error, message(requestId(request)))

startsWith(s, prefix) == At(s, 1, prefix)

PathVersion == <<"/","v","e","r","s","i","o","n">>

PathStats == <<"/","s","t","a","t","s">>

Procs == {1, 2}

NoRequest ==
    [path |-> <<>>, fake |-> None, userAgent |-> None, ip |-> None,
     language |-> None, version |-> None, ray |-> <<>>, testError |-> None]

\* The state of one invocation: where it is and its local variables.
Idle ==
    [pc        |-> "idle",
     req       |-> NoRequest,
     info      |-> NoParse,
     warned    |-> FALSE,      \* the update threw and handleRequest logged it
     unhandled |-> FALSE,      \* the update's promise rejected and nothing handles it
     votes     |-> <<>>,       \* const votes = await votesByIP.findVotes(ip)
     today     |-> <<>>,       \* hasVoted's now, <<>> before the test
     monthKey  |-> <<>>,
     statsPut  |-> <<>>,       \* slowKV.set(monthKey, text) on its way
     votePut   |-> FALSE,      \* votesByIP.recordVote(votes, ip, ua) on its way
     counted   |-> FALSE,      \* the update went on to count the vote
     calls     |-> 0,          \* calls of the release resolver
     version   |-> None,
     source    |-> "none",     \* where the version of the response came from
     putFailed |-> FALSE,
     thisMonthKey |-> <<>>,  \* stats(): const thisMonthKey
     thisMonth |-> <<>>,
     resp      |-> NoResponse]

Free(p) == rq[p].pc \in {"idle", "done"} /\ rq[p].statsPut = <<>> /\ ~rq[p].votePut

Quiet == \A p \in Procs : Free(p)

\* The local variables of an invocation end with it: once the response is
\* made and no write is on its way, only what the request was and what it
\* came to is kept.
Ended(r) ==
    IF r.pc = "done" /\ r.statsPut = <<>> /\ ~r.votePut
    THEN [Idle EXCEPT !.pc = "done", !.req = r.req, !.warned = r.warned,
                      !.unhandled = r.unhandled,
                      !.calls = r.calls, !.source = r.source,
                      !.putFailed = r.putFailed, !.resp = r.resp]
    ELSE r

Set(p, r) == rq' = [rq EXCEPT ![p] = Ended(r)]

Stores == <<kv, slowVersion, slowStats, votesStore>>

Env == <<now, ticks, kvAvailable, releases>>

-----------------------------------------------------------------------------
(* The requests of the model.                                              *)

IpA == <<"a">>

IpB == <<"b">>

\* "Deskflow/1 (8; Linux; ; en)": the third field is empty.
UaA == Deskflow \o <<"/","1"," ","(","8",";"," ","L","i","n","u","x",";"," ",";"," ","e","n",")">>

\* "Deskflow/1 (7; macOS)": two fields only.
UaB == Deskflow \o <<"/","1"," ","(","7",";"," ","m","a","c","O","S",")">>

\* "curl/8": not a client of the application.
UaCurl == <<"c","u","r","l","/","8">>

Get(path, userAgent, ip) ==
    [path |-> path, fake |-> None, userAgent |-> userAgent, ip |-> ip,
     language |-> None, version |-> None, ray |-> <<"r">>, testError |-> None]

VoteRequests == {Get(<<"/">>, UaA, IpA), Get(<<"/">>, UaB, IpA), Get(<<"/">>, UaA, IpB)}

StatsRequests == {Get(PathStats, UaCurl, IpA)}

VersionRequests == {Get(PathVersion, UaCurl, IpA)}

Requests == VoteRequests \cup StatsRequests \cup VersionRequests

\* Requests that can end in an error: for the version with and without the
\* cf-ray header, and for the index with ?testError.
ErrorRequests ==
    LET lookup == Get(PathVersion, UaCurl, IpA)
        test   == [Get(<<"/">>, UaCurl, IpA) EXCEPT !.testError = <<>>]
    IN  {lookup, [lookup EXCEPT !.ray = None], test, [test EXCEPT !.ray = None]}

\* Raw OS family tokens: nothing, one of the pieces, or two of them in a row.
OsTokens ==
    LET pieces == {<<"W","i","n","D","o","w","s">>, <<"M","A","C","O","S">>,
                   <<"l","i","n","u","x">>, <<"F","l","a","t","P","a","k">>,
                   <<"B","s","d">>, <<"x">>}
    IN  {<<>>} \cup pieces \cup {a \o b : a, b \in pieces}

\* "Deskflow/1 (8; <token>)"
UaOf(token) == Deskflow \o <<"/","1"," ","(","8",";"," ">> \o token \o <<")">>

\* "Deskflow 1 on <token>", of the clients before RFC 9110 user agents.
UaLegacy(token) == Deskflow \o <<" ","1"," ","o","n"," ">> \o token

\* "Deskflow/1 (8)": no OS family field.
UaBare == Deskflow \o <<"/","1"," ","(","8",")">>

\* "deskflow/1 (8; Linux)": the marker is not there in this case.
UaLower == <<"d","e","s","k","f","l","o","w","/","1"," ","(","8",";"," ","L","i","n","u","x",")">>

\* One to four fields, each of "7", " en " or nothing.
FieldLists == UNION {[1..n -> {<<"7">>, <<" ","e","n"," ">>, <<>>}] : n \in 1..4}

\* "Deskflow/1 (<field>;<field>;...)"
UaFields(fields) ==
    LET joined[n \in 1..Len(fields)] ==
            IF n = 1 THEN fields[1] ELSE joined[n - 1] \o <<";">> \o fields[n]
    IN  Deskflow \o <<"/","1"," ","(">> \o joined[Len(fields)] \o <<")">>

\* Requests for the index: of clients with every OS family token, of
\* clients without the marker (one sends X-Deskflow-Version), and of clients
\* that arrive without cf-connecting-ip.
ParseRequests ==
    {Get(<<"/">>, UaOf(token), IpA) : token \in OsTokens}
    \cup {Get(<<"/">>, UaLegacy(token), IpA) : token \in {t \in OsTokens : Len(t) \in 1..7}}
    \cup {Get(<<"/">>, UaBare, IpA), Get(<<"/">>, UaLower, IpA),
          [Get(<<"/">>, UaCurl, IpA) EXCEPT !.version = <<"1">>],
          Get(<<"/">>, UaA, None), Get(<<"/">>, UaB, None),
          Get(<<"/">>, UaA, IpA), Get(<<"/">>, UaB, IpA)}
    \cup {Get(<<"/">>, UaFields(fields), IpA) : fields \in FieldLists}
    \cup {[Get(<<"/">>, ua, IpA) EXCEPT !.language = language, !.version = version] :
             ua \in {UaA, UaB, UaLegacy(<<"B","s","d">>),
                     UaLegacy(<<"x"," ","o","n"," ","B","s","d">>)},
             language \in {None, <<"d","e">>}, version \in {None, <<"2">>}}

\* Requests whose update ends before its first await: without a user agent,
\* without the marker, and of recognized clients without cf-connecting-ip; for
\* the index and for a path that is not served.
VoidRequests ==
    {Get(path, ua, None) : path \in {<<"/">>, <<"/","x">>}, ua \in {None, UaCurl, UaA, UaB}}
    \cup {Get(<<"/">>, UaCurl, IpA)}

\* Version requests with ?fake=9 and with ?fake= (an empty value).
FakeRequests == {[Get(PathVersion, UaCurl, IpA) EXCEPT !.fake = f] : f \in {<<"9">>, <<>>}}

\* Requests of one client of the application for every route: the index,
\* the version with and without ?fake=9, the statistics, and a path that is
\* not served.
PathRequests ==
    {Get(path, UaB, IpA) : path \in {<<"/">>, PathVersion, PathStats, <<"/","x">>}}
    \cup {[Get(PathVersion, UaB, IpA) EXCEPT !.fake = <<"9">>]}

\* Requests of clients whose first field, the OS, is the name of a member
\* of Object.prototype or the name "8": "Deskflow/1 (constructor)".
NameRequests ==
    {Get(<<"/">>, UaFields(<<name>>), ip) : name \in ObjectPrototype \cup {<<"8">>},
                                            ip \in {IpA, IpB}}

AllRequests ==
    Requests \cup ErrorRequests \cup ParseRequests \cup VoidRequests \cup FakeRequests
    \cup PathRequests \cup NameRequests

-----------------------------------------------------------------------------
(* The environment.                                                        *)

\* Time passes, by one of the given steps.
Tick(steps) ==
    /\ ticks < MaxTicks
    /\ \E d \in steps : now' = now + d
    /\ ticks' = ticks + 1
    /\ UNCHANGED <<nreq, kv, kvAvailable, slowVersion, slowStats, votesStore,
                   releases, rq, seen>>

Tags == {Continuous, <<"v", "1">>, <<"2">>}

\* The upstream repository publishes a release.
Publish ==
    /\ Len(releases) < MaxReleases
    /\ \E tag \in Tags :
          /\ \A i \in 1..Len(releases) : releases[i] /= tag
          /\ releases' = <<tag>> \o releases
    /\ UNCHANGED <<now, ticks, nreq, kv, kvAvailable, slowVersion, slowStats,
                   votesStore, rq, seen>>

\* The upstream repository deletes one of its releases.
Withdraw ==
    /\ \E i \in 1..Len(releases) :
          releases' = SubSeq(releases, 1, i - 1) \o SubSeq(releases, i + 1, Len(releases))
    /\ UNCHANGED <<now, ticks, nreq, kv, kvAvailable, slowVersion, slowStats,
                   votesStore, rq, seen>>

\* The primary store starts to reject writes (its quota is used up).
KVFail ==
    /\ kvAvailable
    /\ kvAvailable' = FALSE
    /\ UNCHANGED <<now, ticks, nreq, kv, slowVersion, slowStats, votesStore,
                   releases, rq, seen>>

\* The primary store accepts writes again.
KVRecover ==
    /\ ~kvAvailable
    /\ kvAvailable' = TRUE
    /\ UNCHANGED <<now, ticks, nreq, kv, slowVersion, slowStats, votesStore,
                   releases, rq, seen>>

\* Something other than this worker puts a value under 'latest' and gives
\* it no metadata.
KVForeignPut ==
    /\ kv.metadata /= <<>>
    /\ kv' = [value |-> <<"0">>, metadata |-> <<>>]
    /\ UNCHANGED <<now, ticks, nreq, kvAvailable, slowVersion, slowStats,
                   votesStore, releases, rq, seen>>

-----------------------------------------------------------------------------
(* The worker (the snapshot with the vote ledger and the GitHub token).    *)

\* env.GITHUB_TOKEN is configured.
GITHUB_TOKEN == TRUE

\* An update that goes on to the ledger without the requester's address.
UpdateStartWithoutKey(request, info) ==
    IF ~Truthy(request.userAgent) THEN "throw"
    ELSE IF info.isNull THEN "return"
    ELSE IF ~Truthy(info.os) /\ ~Truthy(info.osFamily)
            /\ ~Truthy(info.appLanguage) /\ ~Truthy(info.appVersion)
         THEN "return"
    ELSE "findVotes"

\* updatePopularityContest up to its first await: "throw", "return", or
\* "findVotes" when it goes on to read the ledger.
UpdateStart(request, info) ==
    IF ~Truthy(request.userAgent) THEN "throw"
    ELSE IF info.isNull THEN "return"
    ELSE IF ~Truthy(info.os) /\ ~Truthy(info.osFamily)
            /\ ~Truthy(info.appLanguage) /\ ~Truthy(info.appVersion)
         THEN "return"
    ELSE IF ~Truthy(request.ip) THEN "throw"
    ELSE "findVotes"

\* The key of the month before without the carry into the year: January
\* gives month 0 of the same year.
lastMonthKeyOfTheYear(ym) == <<ym[1], ym[2] - 1>>

\* The key of new Date(date.getFullYear(), date.getMonth() - 1, 1), for the
\* month key of date (the worker's local time is UTC).
lastMonthKey(ym) == IF ym[2] = 1 THEN <<ym[1] - 1, 12>> ELSE <<ym[1], ym[2] - 1>>

\* A route whose version() does not look at ?fake.
routeWithoutFake(r, t) ==
    IF r.req.path = <<"/">>
    THEN IF r.req.testError /= None
         THEN [r EXCEPT !.pc = "done", !.resp = ServerError(r.req, "Test error")]
         ELSE [r EXCEPT !.pc = "done", !.resp = Text(200, "index", <<>>)]
    ELSE IF startsWith(r.req.path, PathVersion)
    THEN [r EXCEPT !.pc = "kvGet"]
    ELSE IF startsWith(r.req.path, PathStats)
    THEN [r EXCEPT !.pc = "statsThis", !.thisMonthKey = isoMonth(toISOString(t))]
    ELSE [r EXCEPT !.pc = "done", !.resp = Text(404, "notFound", <<>>)]

\* handleRequest after the update, at time t: the route, up to its first
\* await.  stats() takes its date before it reads.
route(r, t) ==
    IF r.req.path = <<"/">>
    THEN IF r.req.testError /= None
         THEN [r EXCEPT !.pc = "done", !.resp = ServerError(r.req, "Test error")]
         ELSE [r EXCEPT !.pc = "done", !.resp = Text(200, "index", <<>>)]
    ELSE IF startsWith(r.req.path, PathVersion)
    THEN IF Truthy(r.req.fake)
         THEN [r EXCEPT !.pc = "done", !.resp = Text(200, "version", r.req.fake)]
         ELSE [r EXCEPT !.pc = "kvGet"]
    ELSE IF startsWith(r.req.path, PathStats)
    THEN [r EXCEPT !.pc = "statsThis", !.thisMonthKey = isoMonth(toISOString(t))]
    ELSE [r EXCEPT !.pc = "done", !.resp = Text(404, "notFound", <<>>)]

\* parseUserAgent(userAgent, request.headers) of the requests of the model,
\* worked out once.
InfoOf ==
    [request \in AllRequests |->
        IF Truthy(request.userAgent)
        THEN parseUserAgent(request.userAgent,
                 [language |-> request.language, version |-> request.version])
        ELSE NoParse]

\* A handleRequest that calls updatePopularityContest for the index only.
ArriveIndexOnly(p, request) ==
    /\ Free(p)
    /\ \A q \in Procs : Free(q) => p <= q
    /\ nreq' = nreq + 1
    /\ LET info == InfoOf[request]
           next == IF request.path = <<"/">> THEN UpdateStart(request, info) ELSE "return"
           r    == [Idle EXCEPT !.req = request, !.info = info,
                                !.warned = (next = "throw")]
       IN  Set(p, IF next = "findVotes" THEN [r EXCEPT !.pc = "findVotes"] ELSE route(r, now))
    /\ UNCHANGED <<Env, Stores, seen>>

\* A request arrives: handleRequest calls updatePopularityContest, which
\* runs to its first await.
Arrive(p, request) ==
    /\ Free(p)
    /\ \A q \in Procs : Free(q) => p <= q
    /\ nreq' = nreq + 1
    /\ LET info == InfoOf[request]
           next == UpdateStart(request, info)
           r    == [Idle EXCEPT !.req = request, !.info = info,
                                !.warned = (next = "throw")]
       IN  Set(p, IF next = "findVotes" THEN [r EXCEPT !.pc = "findVotes"] ELSE route(r, now))
    /\ UNCHANGED <<Env, Stores, seen>>

Receive(p, request) == nreq < MaxRequests /\ Arrive(p, request)

ReceiveVote(p, request) == nreq < MaxVoteRequests /\ Arrive(p, request)

ReceiveSeq(request) == nreq < MaxSeqRequests /\ Arrive(1, request)

ReceiveParse(request) == nreq < MaxParseRequests /\ Arrive(1, request)

\* An entry of the history: hasVoted was asked ("asked") about ip and
\* userAgent on date, or recordVote stored ("recorded"), on the date stamp,
\* the vote that was decided on date.
Event(ev, ip, userAgent, date, stamp) ==
    [ev |-> ev, ip |-> ip, userAgent |-> userAgent, date |-> date, stamp |-> stamp]

\* findVotes answers; hasVoted decides; the month key is taken.
FindVotes(p) ==
    /\ rq[p].pc = "findVotes"
    /\ LET r     == rq[p]
           votes == findVotes(votesStore, r.req.ip)
           voted == hasVoted(votes, r.req.userAgent, now)
           today == isoDay(toISOString(now))
           read  == [r EXCEPT !.votes = votes, !.today = today]
       IN  /\ Set(p, IF voted
                     THEN route(read, now)
                     ELSE [read EXCEPT !.monthKey = isoMonth(toISOString(now)),
                                       !.pc = "getStats"])
           /\ seen' = seen (+) SetToBag({Event("asked", r.req.ip, r.req.userAgent, today, today)})
    /\ UNCHANGED <<Env, Stores, nreq>>

\* getStats answers; the bucket is incremented; both writes are sent without
\* being awaited (ctx.waitUntil) and the update returns.
GetStats(p) ==
    /\ rq[p].pc = "getStats"
    /\ LET r     == rq[p]
           stats == Increment(getStats(slowStats, r.monthKey), r.info)
       IN  Set(p, route([r EXCEPT !.statsPut = <<JSONstringify(stats)>>,
                                  !.votePut = TRUE, !.counted = TRUE], now))
    /\ UNCHANGED <<Env, Stores, nreq, seen>>

\* A write that increments the bucket as it is stored at the time of the write.
SlowKVSetAtomic(p) ==
    /\ rq[p].statsPut /= <<>>
    /\ slowStats' = [k \in DOMAIN slowStats \cup {rq[p].monthKey} |->
                        IF k = rq[p].monthKey
                        THEN JSONstringify(Increment(getStats(slowStats, k), rq[p].info))
                        ELSE slowStats[k]]
    /\ Set(p, [rq[p] EXCEPT !.statsPut = <<>>])
    /\ UNCHANGED <<Env, kv, slowVersion, votesStore, nreq, seen>>

\* SlowKV.set(monthKey, text) is carried out.
SlowKVSet(p) ==
    /\ rq[p].statsPut /= <<>>
    /\ slowStats' = [k \in DOMAIN slowStats \cup {rq[p].monthKey} |->
                        IF k = rq[p].monthKey THEN rq[p].statsPut[1] ELSE slowStats[k]]
    /\ Set(p, [rq[p] EXCEPT !.statsPut = <<>>])
    /\ UNCHANGED <<Env, kv, slowVersion, votesStore, nreq, seen>>

\* VotesByIP.recordVote(votes, ip, userAgent) is carried out.
RecordVote(p) ==
    /\ rq[p].votePut
    /\ LET r    == rq[p]
           data == recordVote(r.votes, r.req.userAgent, now)
       IN  /\ votesStore' = [k \in DOMAIN votesStore \cup {r.req.ip} |->
                                IF k = r.req.ip THEN data ELSE votesStore[k]]
           /\ seen' = seen (+) SetToBag({Event("recorded", r.req.ip, r.req.userAgent,
                                               r.today, isoDay(toISOString(now)))})
    /\ Set(p, [rq[p] EXCEPT !.votePut = FALSE])
    /\ UNCHANGED <<Env, kv, slowVersion, slowStats, nreq>>

\* A rejected ledger write that empties the bucket of the month again.
RecordVoteFailsUndoing(p) ==
    /\ rq[p].votePut
    /\ slowStats' = [k \in DOMAIN slowStats |->
                        IF k = rq[p].monthKey THEN JSONstringify(EmptyStats) ELSE slowStats[k]]
    /\ Set(p, [rq[p] EXCEPT !.votePut = FALSE])
    /\ UNCHANGED <<Env, kv, slowVersion, votesStore, nreq, seen>>

\* VotesByIP.recordVote(votes, ip, userAgent) rejects: storage.put did not
\* store the list.  The promise was handed to ctx.waitUntil; nothing else
\* of the worker waits for it.
RecordVoteFails(p) ==
    /\ rq[p].votePut
    /\ Set(p, [rq[p] EXCEPT !.votePut = FALSE])
    /\ UNCHANGED <<Env, Stores, nreq, seen>>

\* A lookup that takes a record without fetchedAt for no record.
KvGetForgiving(p) ==
    /\ rq[p].pc = "kvGet"
    /\ LET r == rq[p]
       IN  IF Truthy(kv.value) /\ kv.metadata /= <<>>
              /\ isValid(kv.metadata[1].fetchedAt, now, cacheAgeSeconds)
           THEN Set(p, [r EXCEPT !.pc = "done", !.source = "primary",
                                 !.resp = Text(200, "version", kv.value)])
           ELSE Set(p, [r EXCEPT !.pc = "listReleases"])
    /\ UNCHANGED <<Env, Stores, nreq, seen>>

\* version(): getWithMetadata('latest') answers.
KvGet(p) ==
    /\ rq[p].pc = "kvGet"
    /\ LET r == rq[p]
       IN  IF Truthy(kv.value) /\ kv.metadata = <<>>
           THEN Set(p, [r EXCEPT !.pc = "done",
                                 !.resp = ServerError(r.req, "Metadata missing field: fetchedAt")])
           ELSE IF Truthy(kv.value) /\ isValid(kv.metadata[1].fetchedAt, now, cacheAgeSeconds)
           THEN Set(p, [r EXCEPT !.pc = "done", !.source = "primary",
                                 !.resp = Text(200, "version", kv.value)])
           ELSE IF ~GITHUB_TOKEN
           THEN Set(p, [r EXCEPT !.pc = "done",
                                 !.resp = ServerError(r.req, "Secret not found: GITHUB_TOKEN")])
           ELSE Set(p, [r EXCEPT !.pc = "listReleases"])
    /\ UNCHANGED <<Env, Stores, nreq, seen>>

\* 'No releases found'
NoReleasesFound ==
    <<"N","o"," ","r","e","l","e","a","s","e","s"," ","f","o","u","n","d">>

\* 'No releases found (except continuous)'
NoReleasesFoundExceptContinuous ==
    NoReleasesFound
    \o <<" ","(","e","x","c","e","p","t"," ","c","o","n","t","i","n","u","o","u","s",")">>

\* A resolver that answers a list of nothing but 'continuous' as it answers
\* an empty list.
ResolveAlike(r, perPage, putPc) ==
    LET page     == listReleases(releases, perPage)
        filtered == filterReleases(page)
    IN  IF Len(filtered) = 0
        THEN [r EXCEPT !.calls = r.calls + 1, !.pc = "done",
                       !.resp = Text(404, "noReleases", NoReleasesFound)]
        ELSE [r EXCEPT !.calls = r.calls + 1, !.pc = putPc,
                       !.version = StripV(filtered[1])]

\* The release resolver answers: lines 167-186, up to the put.
Resolve(r, perPage, putPc) ==
    LET page     == listReleases(releases, perPage)
        filtered == filterReleases(page)
    IN  IF Len(page) = 0
        THEN [r EXCEPT !.calls = r.calls + 1, !.pc = "done",
                       !.resp = Text(404, "noReleases", NoReleasesFound)]
        ELSE IF Len(filtered) = 0
        THEN [r EXCEPT !.calls = r.calls + 1, !.pc = "done",
                       !.resp = Text(404, "noReleasesExceptContinuous",
                                     NoReleasesFoundExceptContinuous)]
        ELSE [r EXCEPT !.calls = r.calls + 1, !.pc = putPc,
                       !.version = StripV(filtered[1])]

ListReleases(p) ==
    /\ rq[p].pc = "listReleases"
    /\ Set(p, Resolve(rq[p], releasesPerPage, "kvPut"))
    /\ UNCHANGED <<Env, Stores, nreq, seen>>

\* ListReleases, with the call entered in the history: "resolved" when the
\* resolver returned a release that is used, "notFound" when it did not, and
\* the time of the call.
ListReleasesSeen(p) ==
    /\ rq[p].pc = "listReleases"
    /\ LET r == Resolve(rq[p], releasesPerPage, "kvPut")
       IN  /\ Set(p, r)
           /\ seen' = seen (+) SetToBag({Event(IF r.pc = "kvPut" THEN "resolved" ELSE "notFound",
                                               None, None, isoDay(toISOString(now)), now)})
    /\ UNCHANGED <<Env, Stores, nreq>>

\* A resolver call that is made again when it fails.
ListReleasesRetried(p) ==
    /\ rq[p].pc = "listReleases"
    /\ Set(p, IF rq[p].calls = 0
              THEN [rq[p] EXCEPT !.calls = 1]
              ELSE [rq[p] EXCEPT !.calls = rq[p].calls + 1, !.pc = "done",
                                 !.resp = ServerError(rq[p].req, "listReleases rejected")])
    /\ UNCHANGED <<Env, Stores, nreq, seen>>

\* octokit.repos.listReleases rejects (the network, the API): version() has
\* no catch, the error goes up to fetch.
ListReleasesFails(p) ==
    /\ rq[p].pc = "listReleases"
    /\ Set(p, [rq[p] EXCEPT !.calls = rq[p].calls + 1, !.pc = "done",
                            !.resp = ServerError(rq[p].req, "listReleases rejected")])
    /\ UNCHANGED <<Env, Stores, nreq, seen>>

\* A record that is stamped with the time the worker started.
RecordAtStart(version, t) ==
    [value |-> version, metadata |-> <<[fetchedAt |-> toISOString(StartTime)]>>]

\* The record put under 'latest' at time t.
Record(version, t) == [value |-> version, metadata |-> <<[fetchedAt |-> toISOString(t)]>>]

\* A put that leaves a record alone that is still within its lifetime.
KvPutUnlessFresh(p) ==
    /\ rq[p].pc = "kvPut"
    /\ LET r == rq[p]
       IN  /\ kv' = IF Truthy(kv.value) /\ kv.metadata /= <<>>
                       /\ isValid(kv.metadata[1].fetchedAt, now, cacheAgeSeconds)
                    THEN kv
                    ELSE Record(r.version, now)
           /\ Set(p, [r EXCEPT !.pc = "done", !.source = "resolver",
                               !.resp = Text(200, "version", r.version)])
    /\ UNCHANGED <<Env, slowVersion, slowStats, votesStore, nreq, seen>>

\* env.APP_VERSION.put('latest', version, ...) answers: a rejected put
\* throws, and nothing catches it before fetch does.
KvPut(p) ==
    /\ rq[p].pc = "kvPut"
    /\ LET r == rq[p]
       IN  IF kvAvailable
           THEN /\ kv' = Record(r.version, now)
                /\ Set(p, [r EXCEPT !.pc = "done", !.source = "resolver",
                                    !.resp = Text(200, "version", r.version)])
           ELSE /\ kv' = kv
                /\ Set(p, [r EXCEPT !.pc = "done", !.putFailed = TRUE,
                                    !.resp = ServerError(r.req, "KV put() rejected")])
    /\ UNCHANGED <<Env, slowVersion, slowStats, votesStore, nreq, seen>>

\* stats(): getSortedStats(env, thisMonthKey) answers.
StatsThis(p) ==
    /\ rq[p].pc = "statsThis"
    /\ Set(p, [rq[p] EXCEPT !.pc = "statsLast",
                            !.thisMonth = <<getSortedStats(getStats(slowStats, rq[p].thisMonthKey))>>])
    /\ UNCHANGED <<Env, Stores, nreq, seen>>

\* stats(): getSortedStats(env, lastMonthKey) answers, and the response.
StatsLast(p) ==
    /\ rq[p].pc = "statsLast"
    /\ LET r   == rq[p]
           key == lastMonthKey(r.thisMonthKey)
       IN  Set(p, [r EXCEPT !.pc = "done",
                            !.resp = [status |-> 200, kind |-> "stats", text |-> <<>>,
                                      stats |-> <<[date |-> r.thisMonthKey, data |-> r.thisMonth[1]],
                                                  [date |-> key,
                                                   data |-> getSortedStats(getStats(slowStats, key))]>>]])
    /\ UNCHANGED <<Env, Stores, nreq, seen>>

-----------------------------------------------------------------------------
(* The worker with the secondary store (the snapshot that falls back to    *)
(* SlowKV): its version(), and of its updatePopularityContest the test     *)
(* that makes it return before it reads or writes anything.                *)

\* /on (.+)/.exec(userAgent)?.[1] ?? null
Os002(userAgent) ==
    IF userAgent = None THEN None
    ELSE LET at == {i \in 1..Len(userAgent) :
                      At(userAgent, i, <<"o", "n", " ">>) /\ i + 3 <= Len(userAgent)}
         IN  IF at = {} THEN None ELSE SubSeq(userAgent, Min(at) + 3, Len(userAgent))

\* if (!appLanguage && !appVersion && !os) return
NoStatsInfo002(request) ==
    ~Truthy(request.language) /\ ~Truthy(request.version) /\ ~Truthy(Os002(request.userAgent))

\* handleRequest: the route, up to its first await.
route002(r, t) ==
    IF r.req.path = <<"/">>
    THEN IF r.req.testError /= None
         THEN [r EXCEPT !.pc = "done", !.resp = ServerError(r.req, "Test error")]
         ELSE [r EXCEPT !.pc = "done", !.resp = Text(200, "index", <<>>)]
    ELSE IF startsWith(r.req.path, PathVersion)
    THEN IF Truthy(r.req.fake)
         THEN [r EXCEPT !.pc = "done", !.resp = Text(200, "version", r.req.fake)]
         ELSE [r EXCEPT !.pc = "kvGet002"]
    ELSE IF startsWith(r.req.path, PathStats)
    THEN [r EXCEPT !.pc = "statsThis", !.thisMonthKey = isoMonth(toISOString(t))]
    ELSE [r EXCEPT !.pc = "done", !.resp = Text(404, "notFound", <<>>)]

\* A request without statistics information arrives.
Arrive002(p, request) ==
    /\ Free(p)
    /\ \A q \in Procs : Free(q) => p <= q
    /\ NoStatsInfo002(request)
    /\ Set(p, route002([Idle EXCEPT !.req = request], now))
    /\ UNCHANGED <<Env, Stores, seen>>

Receive002(p, request) ==
    /\ nreq < MaxRequests
    /\ nreq' = nreq + 1
    /\ Arrive002(p, request)

\* version(): getWithMetadata('latest') answers.
KvGet002(p) ==
    /\ rq[p].pc = "kvGet002"
    /\ LET r == rq[p]
       IN  IF Truthy(kv.value) /\ kv.metadata = <<>>
           THEN Set(p, [r EXCEPT !.pc = "done",
                                 !.resp = ServerError(r.req, "Metadata missing field: fetchedAt")])
           ELSE IF Truthy(kv.value) /\ isValid(kv.metadata[1].fetchedAt, now, cacheAgeSeconds002)
           THEN Set(p, [r EXCEPT !.pc = "done", !.source = "primary",
                                 !.resp = Text(200, "version", kv.value)])
           ELSE Set(p, [r EXCEPT !.pc = "slowGet002"])
    /\ UNCHANGED <<Env, Stores, nreq, seen>>

\* A lookup that passes the secondary store by.
SlowGet002PassedBy(p) ==
    /\ rq[p].pc = "slowGet002"
    /\ Set(p, [rq[p] EXCEPT !.pc = "listReleases002"])
    /\ UNCHANGED <<Env, Stores, nreq, seen>>

\* slowKV.getString('version') answers.
SlowGet002(p) ==
    /\ rq[p].pc = "slowGet002"
    /\ LET r == rq[p]
       IN  IF Truthy(slowVersion)
           THEN Set(p, [r EXCEPT !.pc = "done", !.source = "secondary",
                                 !.resp = Text(200, "version", slowVersion)])
           ELSE Set(p, [r EXCEPT !.pc = "listReleases002"])
    /\ UNCHANGED <<Env, Stores, nreq, seen>>

\* A resolver call after which a lookup that found no release deletes the
\* record of the primary store.
ListReleases002Clearing(p) ==
    /\ rq[p].pc = "listReleases002"
    /\ LET r == Resolve(rq[p], releasesPerPage002, "kvPut002")
       IN  /\ Set(p, r)
           /\ kv' = IF r.pc = "done" THEN NoRecord ELSE kv
    /\ UNCHANGED <<Env, slowVersion, slowStats, votesStore, nreq, seen>>

\* octokit.repos.listReleases answers.
ListReleases002(p) ==
    /\ rq[p].pc = "listReleases002"
    /\ Set(p, Resolve(rq[p], releasesPerPage002, "kvPut002"))
    /\ UNCHANGED <<Env, Stores, nreq, seen>>

\* octokit.repos.listReleases rejects: nothing in version() catches it.
ListReleasesFails002(p) ==
    /\ rq[p].pc = "listReleases002"
    /\ Set(p, [rq[p] EXCEPT !.calls = rq[p].calls + 1, !.pc = "done",
                            !.resp = ServerError(rq[p].req, "listReleases rejected")])
    /\ UNCHANGED <<Env, Stores, nreq, seen>>

\* A put after which the version goes to SlowKV as well when it was accepted.
KvPut002Both(p) ==
    /\ rq[p].pc = "kvPut002"
    /\ LET r == rq[p]
       IN  IF kvAvailable
           THEN /\ kv' = Record(r.version, now)
                /\ Set(p, [r EXCEPT !.pc = "slowSet002"])
           ELSE /\ kv' = kv
                /\ Set(p, [r EXCEPT !.pc = "slowSet002", !.putFailed = TRUE])
    /\ UNCHANGED <<Env, slowVersion, slowStats, votesStore, nreq, seen>>

\* A put whose rejection nothing catches before fetch does.
KvPut002Uncaught(p) ==
    /\ rq[p].pc = "kvPut002"
    /\ LET r == rq[p]
       IN  IF kvAvailable
           THEN /\ kv' = Record(r.version, now)
                /\ Set(p, [r EXCEPT !.pc = "done", !.source = "resolver",
                                    !.resp = Text(200, "version", r.version)])
           ELSE /\ kv' = kv
                /\ Set(p, [r EXCEPT !.pc = "done", !.putFailed = TRUE,
                                    !.resp = ServerError(r.req, "KV put() rejected")])
    /\ UNCHANGED <<Env, slowVersion, slowStats, votesStore, nreq, seen>>

\* env.APP_VERSION.put answers: a rejected put is caught, and the version
\* goes to SlowKV.
KvPut002(p) ==
    /\ rq[p].pc = "kvPut002"
    /\ LET r == rq[p]
       IN  IF kvAvailable
           THEN /\ kv' = Record(r.version, now)
                /\ Set(p, [r EXCEPT !.pc = "done", !.source = "resolver",
                                    !.resp = Text(200, "version", r.version)])
           ELSE /\ kv' = kv
                /\ Set(p, [r EXCEPT !.pc = "slowSet002", !.putFailed = TRUE])
    /\ UNCHANGED <<Env, slowVersion, slowStats, votesStore, nreq, seen>>

\* slowKV.set('version', version) answers, and the response.
SlowSet002(p) ==
    /\ rq[p].pc = "slowSet002"
    /\ slowVersion' = rq[p].version
    /\ Set(p, [rq[p] EXCEPT !.pc = "done", !.source = "resolver",
                            !.resp = Text(200, "version", rq[p].version)])
    /\ UNCHANGED <<Env, kv, slowStats, votesStore, nreq, seen>>

-----------------------------------------------------------------------------
(* The worker of src/src/index.ts, which does not wait for the update.      *)

\* handleRequest: void updatePopularityContest(request, env) inside
\* try/catch, then the route.  The call of an async function returns its
\* promise at once and never throws: what the function throws rejects the
\* promise, which nothing awaits and nothing handles, so the catch block
\* never runs.  Taken for the requests whose update ends before its first
\* await.
ArriveVoid(p, request) ==
    /\ nreq < MaxRequests
    /\ Free(p)
    /\ nreq' = nreq + 1
    /\ LET info == InfoOf[request]
           next == UpdateStart(request, info)
       IN  /\ next /= "findVotes"
           /\ Set(p, route([Idle EXCEPT !.req = request, !.info = info,
                                        !.unhandled = (next = "throw")], now))
    /\ UNCHANGED <<Env, Stores, seen>>

-----------------------------------------------------------------------------
(* The specifications.                                                     *)

Init ==
    /\ now = StartTime
    /\ ticks = 0
    /\ nreq = 0
    /\ kv = NoRecord
    /\ kvAvailable = TRUE
    /\ slowVersion = None
    /\ slowStats = <<>>
    /\ votesStore = <<>>
    /\ releases = <<>>
    /\ rq = [p \in Procs |-> Idle]
    /\ seen = EmptyBag

\* One second less than the cache lifetime and one second: from StartTime
\* to the last second of the lifetime of a record, and to the first after it.
VersionSteps == {cacheAgeSeconds - 1, 1}

\* The version lookups, concurrent: the whole of version().
NextVersion ==
    \/ Tick(VersionSteps)
    \/ Publish
    \/ KVFail
    \/ KVRecover
    \/ \E p \in Procs : \E request \in VersionRequests : Receive(p, request)
    \/ \E p \in Procs : KvGet(p)
    \/ \E p \in Procs : ListReleases(p)
    \/ \E p \in Procs : KvPut(p)

SpecVersion == Init /\ [][NextVersion]_vars

VersionSteps002 == {cacheAgeSeconds002 - 1, 1}

\* The version lookups of the worker with the secondary store, concurrent.
NextFallback ==
    \/ Tick(VersionSteps002)
    \/ Publish
    \/ KVFail
    \/ KVRecover
    \/ \E p \in Procs : \E request \in VersionRequests : Receive002(p, request)
    \/ \E p \in Procs : KvGet002(p)
    \/ \E p \in Procs : SlowGet002(p)
    \/ \E p \in Procs : ListReleases002(p)
    \/ \E p \in Procs : ListReleasesFails002(p)
    \/ \E p \in Procs : KvPut002(p)
    \/ \E p \in Procs : SlowSet002(p)

SpecFallback == Init /\ [][NextFallback]_vars

\* The same lookups, one at a time and without end: every await is answered
\* and requests keep arriving.
Lookup002 ==
    \/ \E request \in VersionRequests : Arrive002(1, request) /\ UNCHANGED nreq
    \/ KvGet002(1)
    \/ SlowGet002(1)
    \/ ListReleases002(1)
    \/ KvPut002(1)
    \/ SlowSet002(1)

NextFallbackFair ==
    \/ Tick(VersionSteps002)
    \/ Publish
    \/ KVFail
    \/ KVRecover
    \/ Lookup002

SpecFallbackFair == Init /\ [][NextFallbackFair]_vars /\ WF_vars(Lookup002)

\* The tags of up to MaxTagLen of the characters v, V and 1.
TagStrings == UNION {[1..n -> {"v", "V", "1"}] : n \in 1..MaxTagLen}

\* The upstream lists one release, of any of these tags.
InitTags ==
    /\ now = StartTime
    /\ ticks = 0
    /\ nreq = 0
    /\ kv = NoRecord
    /\ kvAvailable = TRUE
    /\ slowVersion = None
    /\ slowStats = <<>>
    /\ votesStore = <<>>
    /\ releases \in {<<tag>> : tag \in TagStrings}
    /\ rq = [p \in Procs |-> Idle]
    /\ seen = EmptyBag

\* The version lookups of one release, one at a time.
NextTags ==
    \/ \E request \in VersionRequests \cup FakeRequests : Receive(1, request)
    \/ KvGet(1)
    \/ ListReleases(1)
    \/ KvPut(1)

SpecTags == InitTags /\ [][NextTags]_vars

\* The requests that can fail, with a store that can hold a record without
\* metadata and can reject a put.
NextErrors ==
    \/ Publish
    \/ KVFail
    \/ KVRecover
    \/ KVForeignPut
    \/ \E p \in Procs, request \in ErrorRequests : Receive(p, request)
    \/ \E p \in Procs : KvGet(p)
    \/ \E p \in Procs : ListReleases(p)
    \/ \E p \in Procs : ListReleasesFails(p)
    \/ \E p \in Procs : KvPut(p)

SpecErrors == Init /\ [][NextErrors]_vars

\* One client after the other, of many user agents.
NextParse ==
    \/ \E request \in ParseRequests : ReceiveParse(request)
    \/ FindVotes(1)
    \/ GetStats(1)
    \/ SlowKVSet(1)
    \/ RecordVote(1)

SpecParse == Init /\ [][NextParse]_vars

\* The worker that does not wait for the update.
NextVoid == \E p \in Procs, request \in VoidRequests : ArriveVoid(p, request)

SpecVoid == Init /\ [][NextVoid]_vars

\* A day: from StartTime into the next month and year, and from there into
\* the next day of the same month.
DaySteps == {SecondsPerDay}

\* The popularity contest, concurrent.
Next ==
    \/ Tick(DaySteps)
    \/ \E p \in Procs : \E request \in VoteRequests : ReceiveVote(p, request)
    \/ \E p \in Procs : FindVotes(p)
    \/ \E p \in Procs : GetStats(p)
    \/ \E p \in Procs : SlowKVSet(p)
    \/ \E p \in Procs : RecordVote(p)

Spec == Init /\ [][Next]_vars

\* Three votes of one day, two requests at a time.
NextRace ==
    \/ \E p \in Procs : \E request \in VoteRequests : Receive(p, request)
    \/ \E p \in Procs : FindVotes(p)
    \/ \E p \in Procs : GetStats(p)
    \/ \E p \in Procs : SlowKVSet(p)
    \/ \E p \in Procs : RecordVote(p)

SpecRace == Init /\ [][NextRace]_vars

\* The popularity contest and its statistics, one request at a time.
NextSeq ==
    \/ Tick(DaySteps)
    \/ \E request \in VoteRequests \cup StatsRequests : ReceiveSeq(request)
    \/ FindVotes(1)
    \/ GetStats(1)
    \/ SlowKVSet(1)
    \/ RecordVote(1)
    \/ StatsThis(1)
    \/ StatsLast(1)

SpecSeq == Init /\ [][NextSeq]_vars

\* Every endpoint of the worker, one request at a time.
NextAll ==
    \/ Tick(DaySteps)
    \/ Publish
    \/ \E request \in {Get(<<"/">>, UaA, IpA)} \cup StatsRequests \cup VersionRequests :
          Receive(1, request)
    \/ FindVotes(1)
    \/ GetStats(1)
    \/ SlowKVSet(1)
    \/ RecordVote(1)
    \/ StatsThis(1)
    \/ StatsLast(1)
    \/ KvGet(1)
    \/ ListReleases(1)
    \/ KvPut(1)

SpecAll == Init /\ [][NextAll]_vars

\* One client on one day, on every route, one request at a time.
NextPaths ==
    \/ Publish
    \/ \E request \in PathRequests : Receive(1, request)
    \/ FindVotes(1)
    \/ GetStats(1)
    \/ SlowKVSet(1)
    \/ RecordVote(1)
    \/ StatsThis(1)
    \/ StatsLast(1)
    \/ KvGet(1)
    \/ ListReleases(1)
    \/ KvPut(1)

SpecPaths == Init /\ [][NextPaths]_vars

\* The popularity contest with a ledger whose writes can be rejected, one
\* request at a time.
NextLedger ==
    \/ Tick(DaySteps)
    \/ \E request \in VoteRequests : Receive(1, request)
    \/ FindVotes(1)
    \/ GetStats(1)
    \/ SlowKVSet(1)
    \/ RecordVote(1)
    \/ RecordVoteFails(1)

SpecLedger == Init /\ [][NextLedger]_vars

\* One request at a time, of the clients whose OS is a name that objects
\* inherit, within one day.
NextNames ==
    \/ \E request \in NameRequests : Receive(1, request)
    \/ FindVotes(1)
    \/ GetStats(1)
    \/ SlowKVSet(1)
    \/ RecordVote(1)

SpecNames == Init /\ [][NextNames]_vars

\* The version lookups, one request at a time, with a primary store that
\* takes every write.
NextLookups ==
    \/ Tick(VersionSteps)
    \/ Publish
    \/ \E request \in VersionRequests \cup FakeRequests : Receive(1, request)
    \/ KvGet(1)
    \/ ListReleasesSeen(1)
    \/ KvPut(1)

SpecLookups == Init /\ [][NextLookups]_vars

\* The version lookups of the worker with the secondary store, one request
\* at a time, with releases that are published and deleted upstream.
NextNotFound ==
    \/ Tick(VersionSteps002)
    \/ Publish
    \/ Withdraw
    \/ KVFail
    \/ KVRecover
    \/ \E request \in VersionRequests : Receive002(1, request)
    \/ KvGet002(1)
    \/ SlowGet002(1)
    \/ ListReleases002(1)
    \/ KvPut002(1)
    \/ SlowSet002(1)

SpecNotFound == Init /\ [][NextNotFound]_vars

-----------------------------------------------------------------------------
(* The properties.                                                         *)

\* The age, in seconds, of the record the primary store holds.
Age == now - getTime(kv.metadata[1].fetchedAt)

HoldsRecord == Truthy(kv.value) /\ kv.metadata /= <<>>

\* C1: when getWithMetadata answers a /version request (without ?fake) while
\* the primary store holds a record (v, fetchedAt = T) at time T': if
\* T' - T < ttl the response is v, the invocation has not called the release
\* resolver, and the step writes no store; if T' - T >= ttl the record is
\* stale and the invocation goes on to call the release resolver.
C1_HitIffYoungerThanTtl ==
    [][\A p \in Procs :
          (rq[p].pc = "kvGet" /\ rq'[p] /= rq[p] /\ HoldsRecord) =>
              IF Age < cacheAgeSeconds
              THEN /\ rq'[p].pc = "done"
                   /\ rq'[p].resp = Text(200, "version", kv.value)
                   /\ rq'[p].calls = 0
                   /\ UNCHANGED Stores
              ELSE /\ rq'[p].pc = "listReleases"
                   /\ rq'[p].resp = NoResponse]_vars

\* One request was served from the record, and another, which read the
\* record at the age of ttl seconds, is calling the release resolver.
C1_Witness ==
    \E p, q \in Procs :
        /\ HoldsRecord
        /\ Age = cacheAgeSeconds
        /\ rq[p].pc = "done" /\ rq[p].source = "primary"
        /\ rq[p].resp = Text(200, "version", kv.value)
        /\ rq[q].pc = "listReleases"

\* The versions a refresh can store: the tags of the releases, but
\* 'continuous', without their leading v.
Normalized == {StripV(tag) : tag \in Tags \ {Continuous}}

ServedByPrimary ==
    \E p \in Procs :
        /\ rq[p].pc = "done"
        /\ \/ rq[p].source = "primary"
           \/ rq[p].source = "resolver" /\ ~rq[p].putFailed

\* C4: while the secondary store holds a value and the primary store accepts
\* writes, requests keep arriving and every await is answered, a request is
\* eventually answered from the primary store (its record, or a refresh that
\* repopulates it), unless the primary store rejects writes again.
C4_SecondaryOnlyUntilRecovery ==
    (Truthy(slowVersion) /\ kvAvailable) ~> (~kvAvailable \/ ServedByPrimary)

\* What the stores hold: the list of a requester key, and of the bucket of
\* a month its vote count (0 when it has none).
Ledger(ip) == IF ip \in DOMAIN votesStore THEN votesStore[ip] ELSE <<>>

StoredVotes(monthKey) ==
    IF monthKey \in DOMAIN slowStats
       /\ \E i \in 1..Len(slowStats[monthKey]) : slowStats[monthKey][i][1] = "votes"
    THEN slowStats[monthKey][CHOOSE i \in 1..Len(slowStats[monthKey]) :
                                 slowStats[monthKey][i][1] = "votes"][2]
    ELSE 0

MonthOf(date) == <<date[1], date[2]>>

Asked == {e \in BagToSet(seen) : e.ev = "asked"}

Recorded == {e \in BagToSet(seen) : e.ev = "recorded"}

\* The requests that asked about ip and userAgent on date.
TimesAsked(ip, userAgent, date) ==
    CopiesIn(Event("asked", ip, userAgent, date, date), seen)

\* Every request so far was handled within one calendar date: its vote was
\* stored on the date on which it was decided.
WithinOneDate == \A e \in Recorded : e.stamp = e.date

\* C5: with requests handled one at a time, each within one UTC calendar
\* date, the vote count of every month is the number of distinct (requester
\* key, identity string, date) of that month that requests came with: two
\* requests with one key and identity on one date add 1 in total, and a
\* request with them on the next date adds 1 again.
C5_OncePerKeyIdentityDate ==
    (Quiet /\ WithinOneDate) =>
        \A monthKey \in DOMAIN slowStats \cup {MonthOf(e.date) : e \in Asked} :
            StoredVotes(monthKey) = Cardinality({e \in Asked : MonthOf(e.date) = monthKey})

\* Two requests of one key and identity on 2025-01-01 and a third on
\* 2025-01-02 were handled: the vote count of 2025-01 is 2.
C5_Witness ==
    /\ Quiet /\ WithinOneDate
    /\ nreq = 3
    /\ TimesAsked(IpA, UaA, <<2025, 1, 1>>) = 2
    /\ TimesAsked(IpA, UaA, <<2025, 1, 2>>) = 1
    /\ StoredVotes(<<2025, 1>>) = 2
    /\ Len(Ledger(IpA)) = 2

\* C6: when findVotes answers, the request is taken to have voted today if
\* and only if the stored list of its own requester key has an entry whose
\* identity string equals its own and whose stored date is today's UTC
\* date; no other entry, and no list of another key, makes it so.
C6_VotedTodayIff ==
    [][\A p \in Procs :
          (rq[p].pc = "findVotes" /\ rq'[p] /= rq[p]) =>
              LET list  == Ledger(rq[p].req.ip)
                  today == toISOString(now).date
                  voted == \E i \in 1..Len(list) :
                              /\ list[i].userAgent = rq[p].req.userAgent
                              /\ list[i].isoDateText.date = today
              IN  /\ voted <=> rq'[p].pc /= "getStats"
                  /\ voted => rq'[p] = Ended(route(rq[p], now))
                  /\ UNCHANGED Stores]_vars

\* One requester key has today's votes of two identity strings in its list,
\* another key has one of them too, and the three were counted.
C6_Witness ==
    /\ Quiet
    /\ Len(Ledger(IpA)) = 2
    /\ Ledger(IpA)[1].userAgent /= Ledger(IpA)[2].userAgent
    /\ Ledger(IpA)[1].isoDateText.date = Ledger(IpA)[2].isoDateText.date
    /\ Len(Ledger(IpB)) = 1
    /\ Ledger(IpB)[1].isoDateText.date = Ledger(IpA)[1].isoDateText.date
    /\ StoredVotes(MonthOf(Ledger(IpA)[1].isoDateText.date)) = 3

\* The list that request r read has no entry of its identity string and of
\* the date of its test.
ObservedNotVoted(r) ==
    /\ r.today /= <<>>
    /\ \A i \in 1..Len(r.votes) :
          ~(r.votes[i].userAgent = r.req.userAgent /\ r.votes[i].isoDateText.date = r.today)

\* C7: a request increments the bucket only after the list it read showed it
\* as not having voted today, whatever has been stored since it read.
C7_CountsOnWhatItRead ==
    \A p \in Procs :
        (rq[p].pc = "getStats" \/ rq[p].counted) => ObservedNotVoted(rq[p])

\* Two requests with one requester key and identity string on one day both
\* read the list before either stored its vote, both were taken as not having
\* voted, and both increments are in the bucket: the vote count of the month
\* is 2 for one (key, identity, date).
C7_Witness ==
    \E p, q \in Procs :
        /\ p /= q
        /\ rq[p].req.ip = rq[q].req.ip
        /\ rq[p].req.userAgent = rq[q].req.userAgent
        /\ rq[p].today = rq[q].today
        /\ rq[p].counted /\ rq[q].counted
        /\ rq[p].votePut /\ rq[q].votePut
        /\ ObservedNotVoted(rq[p]) /\ ObservedNotVoted(rq[q])
        /\ Cardinality(Asked) = 1
        /\ TimesAsked(rq[p].req.ip, rq[p].req.userAgent, rq[p].today) = 2
        /\ StoredVotes(MonthOf(rq[p].today)) = 2

\* The categories of a bucket, with the field of the parsed user agent that
\* each one counts.
Categories == {"os", "osFamily", "language", "version"}

InfoField(info, category) ==
    CASE category = "os"       -> info.os
      [] category = "osFamily" -> info.osFamily
      [] category = "language" -> info.appLanguage
      [] category = "version"  -> info.appVersion

\* The values a category mapping has, and the count of one (0: no entry).
Keys(category) ==
    IF category = <<>> THEN {} ELSE {category[1][i][1] : i \in 1..Len(category[1])}

CountOf(category, value) ==
    IF value \in Keys(category)
    THEN category[1][CHOOSE i \in 1..Len(category[1]) : category[1][i][1] = value][2]
    ELSE 0

VotesOf(stats) == IF stats.votes = <<>> THEN 0 ELSE stats.votes[1]

\* What the increment of a request does to the bucket it read (read), as
\* the bucket it sends to the store (sent), counting the fields that
\* Counted(value) holds of; and what the write of the bucket does to the
\* store.
IncrementsBy(p, Counted(_)) ==
    /\ (rq[p].pc = "getStats" /\ rq'[p] /= rq[p]) =>
          LET read == IF rq[p].monthKey \in DOMAIN slowStats
                      THEN JSONparse(slowStats[rq[p].monthKey]) ELSE EmptyStats
              sent == JSONparse(rq'[p].statsPut[1])
          IN  /\ VotesOf(sent) = VotesOf(read) + 1
              /\ \A category \in Categories :
                    LET value == InfoField(rq[p].info, category)
                    IN  IF Counted(value)
                        THEN /\ CountOf(sent[category], value) = CountOf(read[category], value) + 1
                             /\ Keys(sent[category]) = Keys(read[category]) \cup {value}
                             /\ \A other \in Keys(read[category]) \ {value} :
                                   CountOf(sent[category], other) = CountOf(read[category], other)
                        ELSE sent[category] = read[category]
              /\ UNCHANGED Stores
    /\ (rq[p].statsPut /= <<>> /\ rq'[p].statsPut = <<>>) =>
          /\ DOMAIN slowStats' = DOMAIN slowStats \cup {rq[p].monthKey}
          /\ slowStats'[rq[p].monthKey] = rq[p].statsPut[1]
          /\ \A monthKey \in DOMAIN slowStats \ {rq[p].monthKey} :
                slowStats'[monthKey] = slowStats[monthKey]

NonNull(value) == value /= None

NonEmpty(value) == value /= None /\ value /= <<>>

\* C8, as it is stated: the increment adds 1 to the vote count and, for each
\* field of the parsed user agent that is not null, 1 to the count of its
\* value in its category; the category of a null field, the other entries
\* and the buckets of the other months stay as they were.
C8_EveryNonNullField == [][\A p \in Procs : IncrementsBy(p, NonNull)]_vars

\* C8 with "neither null nor the empty string" in place of "not null": the
\* same of each such field; the category of a null or empty field stays as
\* it was.  (It holds of field values that no object inherits as a member.)
C8_EveryNonEmptyField == [][\A p \in Procs : IncrementsBy(p, NonEmpty)]_vars

\* A request whose parsed user agent has an empty version (not null) sends a
\* bucket with the vote count 2, with the os of an earlier vote as it was next
\* to its own, and with no version category, while another month has its
\* bucket.
C8_Witness ==
    /\ rq[1].statsPut /= <<>>
    /\ rq[1].info.appVersion = <<>>
    /\ rq[1].info.os = <<"8">>
    /\ LET sent == JSONparse(rq[1].statsPut[1])
       IN  /\ VotesOf(sent) = 2
           /\ CountOf(sent.os, <<"7">>) = 1
           /\ CountOf(sent.os, <<"8">>) = 1
           /\ CountOf(sent.language, <<"e", "n">>) = 1
           /\ sent.version = <<>>
    /\ \E monthKey \in DOMAIN slowStats : monthKey /= rq[1].monthKey

\* Whether the entries (a list of pairs of value and count) are those of the
\* stored list, the larger counts first and equal counts in the stored
\* order.
SortedCopy(entries, stored) ==
    /\ Len(entries) = Len(stored)
    /\ {entries[i] : i \in 1..Len(entries)} = {stored[i] : i \in 1..Len(stored)}
    /\ \A i, j \in 1..Len(entries) : i < j => entries[i][2] >= entries[j][2]
    /\ \A i, j \in 1..Len(stored) :
          (i < j /\ stored[i][2] = stored[j][2]) =>
              \E k, l \in 1..Len(entries) :
                  k < l /\ entries[k] = stored[i] /\ entries[l] = stored[j]

\* Whether data is the sorted reading of the bucket stored under monthKey.
ReadSorted(data, monthKey) ==
    LET text == IF monthKey \in DOMAIN slowStats THEN slowStats[monthKey] ELSE <<>>
        stored(category) ==
            IF \E i \in 1..Len(text) : text[i][1] = category
            THEN text[CHOOSE i \in 1..Len(text) : text[i][1] = category][2]
            ELSE <<>>
    IN  \A category \in Categories : SortedCopy(data[category], stored(category))

\* C9: each of the two readings of /stats returns, for each category, the
\* entries of the stored mapping, no entry before one of a strictly larger
\* count and entries of equal counts in their stored order, and the store is
\* as it was.
C9_ReadSortedByCount ==
    [][\A p \in Procs :
          /\ (rq[p].pc = "statsThis" /\ rq'[p] /= rq[p]) =>
                /\ ReadSorted(rq'[p].thisMonth[1], rq[p].thisMonthKey)
                /\ UNCHANGED Stores
          /\ (rq[p].pc = "statsLast" /\ rq'[p] /= rq[p]) =>
                /\ ReadSorted(rq'[p].resp.stats[2].data, lastMonthKey(rq[p].thisMonthKey))
                /\ rq'[p].resp.stats[1].data = rq[p].thisMonth[1]
                /\ UNCHANGED Stores]_vars

\* The reading of a month without a bucket: no vote count and four empty
\* mappings.
EmptyReading ==
    [votes |-> <<>>, osFamily |-> <<>>, os |-> <<>>, language |-> <<>>, version |-> <<>>]

\* C10: a reading of a month that has no bucket returns no vote count and
\* four empty category mappings, and leaves the store without a bucket for
\* that month.
C10_NoBucketReadsEmpty ==
    [][\A p \in Procs :
          /\ (rq[p].pc = "statsThis" /\ rq'[p] /= rq[p]
                /\ rq[p].thisMonthKey \notin DOMAIN slowStats) =>
                /\ rq'[p].thisMonth = <<EmptyReading>>
                /\ slowStats' = slowStats
          /\ (rq[p].pc = "statsLast" /\ rq'[p] /= rq[p]
                /\ lastMonthKey(rq[p].thisMonthKey) \notin DOMAIN slowStats) =>
                /\ rq'[p].resp.stats[2].data = EmptyReading
                /\ rq'[p].resp.stats[2].date = lastMonthKey(rq[p].thisMonthKey)
                /\ slowStats' = slowStats]_vars

\* A /stats request was answered in a month that has no bucket, after votes
\* of the month before: this month reads empty, the last month has its
\* votes, and the store has the bucket of the last month only.
C10_Witness ==
    /\ rq[1].pc = "done"
    /\ rq[1].resp.kind = "stats"
    /\ rq[1].resp.stats[1].data = EmptyReading
    /\ rq[1].resp.stats[1].date \notin DOMAIN slowStats
    /\ rq[1].resp.stats[2].data.votes = <<2>>
    /\ DOMAIN slowStats = {rq[1].resp.stats[2].date}

\* The places of the releases listed that are not the sentinel.
Usable == {i \in 1..Len(releases) : releases[i] /= Continuous}

\* C11: when the resolver answers a lookup with a list that has an entry
\* other than "continuous", the version resolved is the tag of the first such
\* entry of the list, without its leading v; the filter drops the sentinel
\* wherever it is and keeps the other entries in their order; and the put
\* that follows stores that version and the request answers with it.
C11_LatestIsFirstNonSentinel ==
    [][\A p \in Procs :
          /\ (rq[p].pc = "listReleases" /\ rq'[p] /= rq[p] /\ Usable /= {}) =>
                LET tag      == releases[Min(Usable)]
                    filtered == filterReleases(releases)
                IN  /\ rq'[p].pc = "kvPut"
                    /\ rq'[p].version = IF tag[1] = "v" THEN Tail(tag) ELSE tag
                    /\ Len(filtered) = Cardinality(Usable)
                    /\ \A i \in 1..Len(filtered) :
                          /\ filtered[i] /= Continuous
                          /\ \E k \in Usable :
                                /\ releases[k] = filtered[i]
                                /\ Cardinality({l \in Usable : l < k}) = i - 1
          /\ (rq[p].pc = "kvPut" /\ rq'[p] /= rq[p] /\ kvAvailable) =>
                /\ kv'.value = rq[p].version
                /\ rq'[p].resp = Text(200, "version", rq[p].version)]_vars

\* The upstream lists "continuous" and then "v1"; a lookup resolved it,
\* stored "1" and answered with it.
C11_Witness ==
    \E p \in Procs :
        /\ releases = <<Continuous, <<"v", "1">>>>
        /\ rq[p].pc = "done" /\ rq[p].source = "resolver" /\ rq[p].calls = 1
        /\ rq[p].resp = Text(200, "version", <<"1">>)
        /\ kv.value = <<"1">>

\* C12: when the resolver answers a lookup with an empty list the request
\* answers 404 with the body "No releases found"; when it answers with a list
\* of nothing but "continuous" the request answers 404 with the body "No
\* releases found (except continuous)"; the two bodies differ, and neither
\* outcome writes a store.
C12_NotFoundOutcomes ==
    [][\A p \in Procs :
          (rq[p].pc = "listReleases" /\ rq'[p] /= rq[p] /\ Usable = {}) =>
              /\ rq'[p].pc = "done"
              /\ rq'[p].resp.status = 404
              /\ rq'[p].resp.text = IF releases = <<>>
                                    THEN NoReleasesFound
                                    ELSE NoReleasesFoundExceptContinuous
              /\ NoReleasesFound /= NoReleasesFoundExceptContinuous
              /\ UNCHANGED Stores]_vars

\* One lookup was answered the empty list and another, later, a list of
\* "continuous" alone: both answered 404, with the two bodies.
C12_Witness ==
    \E p, q \in Procs :
        /\ releases = <<Continuous>>
        /\ rq[p].pc = "done" /\ rq[p].calls = 1
        /\ rq[p].resp = Text(404, "noReleases", NoReleasesFound)
        /\ rq[q].pc = "done" /\ rq[q].calls = 1
        /\ rq[q].resp = Text(404, "noReleasesExceptContinuous", NoReleasesFoundExceptContinuous)
        /\ kv = NoRecord

\* C13: the version resolved from a tag is the tag without its first
\* character when that character is the lowercase v, and the tag itself
\* otherwise: a leading V stays, of a leading vv one v stays, and a v further
\* on stays; and that version is what is stored and answered.
C13_StripsOneLeadingV ==
    [][LET tag == releases[1]
       IN  /\ (rq[1].pc = "listReleases" /\ rq'[1] /= rq[1]) =>
                 /\ tag[1] = "v" =>
                       /\ Len(rq'[1].version) = Len(tag) - 1
                       /\ \A i \in 1..Len(rq'[1].version) : rq'[1].version[i] = tag[i + 1]
                 /\ tag[1] /= "v" => rq'[1].version = tag
           /\ (rq[1].pc = "kvPut" /\ rq'[1] /= rq[1]) =>
                 /\ kv'.value = rq[1].version
                 /\ rq'[1].resp = Text(200, "version", rq[1].version)]_vars

\* The upstream lists "vv1v"; a lookup stored and answered "v1v".
C13_Witness ==
    /\ releases = <<<<"v", "v", "1", "v">>>>
    /\ rq[1].pc = "done" /\ rq[1].source = "resolver"
    /\ rq[1].resp = Text(200, "version", <<"v", "1", "v">>)
    /\ kv.value = <<"v", "1", "v">>

\* C14: a version lookup that finds a value under 'latest' whose fetchedAt
\* is missing ends there with a 500: the resolver is not called, the record
\* stays as it is, and the value is not what the response carries.
C14_MissingFetchedAtIsAnError ==
    [][\A p \in Procs :
          (rq[p].pc = "kvGet" /\ rq'[p] /= rq[p]
              /\ Truthy(kv.value) /\ kv.metadata = <<>>) =>
             /\ rq'[p].pc = "done"
             /\ rq'[p].resp.status = 500
             /\ rq'[p].resp.text /= kv.value
             /\ rq'[p].calls = 0
             /\ rq'[p].source = rq[p].source
             /\ UNCHANGED Stores]_vars

\* A lookup met a record without metadata and answered 500; the record is
\* still there.
C14_Witness ==
    \E p \in Procs :
        /\ rq[p].pc = "done"
        /\ rq[p].resp = ServerError(rq[p].req, "Metadata missing field: fetchedAt")
        /\ rq[p].calls = 0
        /\ kv = [value |-> <<"0">>, metadata |-> <<>>]

\* C15: for a user agent without the marker 'Deskflow' the parser returns
\* null, and the update of that request ends without an error (nothing is
\* logged as a warning, the response is the route's) and without a read or a
\* write of the vote ledger or of a monthly bucket.
C15_NoMarkerSkipsTheUpdate ==
    [][(nreq' = nreq + 1 /\ ~includes(rq'[1].req.userAgent, Deskflow)) =>
          /\ parseUserAgent(rq'[1].req.userAgent,
                            [language |-> rq'[1].req.language,
                             version  |-> rq'[1].req.version]) = NoParse
          /\ InfoOf[rq'[1].req].isNull
          /\ rq'[1].pc = "done"
          /\ ~rq'[1].warned
          /\ rq'[1].resp = Text(200, "index", <<>>)
          /\ rq'[1].statsPut = <<>> /\ ~rq'[1].votePut
          /\ UNCHANGED <<Stores, seen>>]_vars

\* curl, sending X-Deskflow-Version, got the index; nothing was read or stored.
C15_Witness ==
    /\ rq[1].pc = "done"
    /\ rq[1].req.userAgent = UaCurl /\ rq[1].req.version = <<"1">>
    /\ rq[1].resp.status = 200 /\ ~rq[1].warned
    /\ votesStore = <<>> /\ slowStats = <<>> /\ seen = EmptyBag

\* C16: the OS family of a raw token is found by looking for the terms in
\* the token without regard to case, in a fixed order: windows, then macos,
\* then linux or flatpak, then bsd; a non-empty token with none of them is
\* Other; an empty or absent token has no family.
C16_FamilyByFirstTerm ==
    /\ \A token \in OsTokens :
          (rq[1].pc = "findVotes" /\ rq[1].req.userAgent \in {UaOf(token), UaLegacy(token)}) =>
             LET lower == toLowerCase(token)
                 Has(term) == \E i \in 0..(Len(lower) - Len(term)) :
                                 \A j \in 1..Len(term) : lower[i + j] = term[j]
                 family == rq[1].info.osFamily
             IN  /\ token = <<>> => family = None
                 /\ Has(<<"w","i","n","d","o","w","s">>) => family = <<"W","i","n","d","o","w","s">>
                 /\ (~Has(<<"w","i","n","d","o","w","s">>) /\ Has(<<"m","a","c","o","s">>)) =>
                       family = <<"m","a","c","O","S">>
                 /\ (~Has(<<"w","i","n","d","o","w","s">>) /\ ~Has(<<"m","a","c","o","s">>)
                     /\ (Has(<<"l","i","n","u","x">>) \/ Has(<<"f","l","a","t","p","a","k">>))) =>
                       family = <<"L","i","n","u","x">>
                 /\ (~Has(<<"w","i","n","d","o","w","s">>) /\ ~Has(<<"m","a","c","o","s">>)
                     /\ ~Has(<<"l","i","n","u","x">>) /\ ~Has(<<"f","l","a","t","p","a","k">>)
                     /\ Has(<<"b","s","d">>)) =>
                       family = <<"B","S","D">>
                 /\ (token /= <<>> /\ ~Has(<<"w","i","n","d","o","w","s">>)
                     /\ ~Has(<<"m","a","c","o","s">>) /\ ~Has(<<"l","i","n","u","x">>)
                     /\ ~Has(<<"f","l","a","t","p","a","k">>) /\ ~Has(<<"b","s","d">>)) =>
                       family = <<"O","t","h","e","r">>
    /\ (rq[1].pc = "findVotes" /\ rq[1].req.userAgent = UaBare) => rq[1].info.osFamily = None

\* "Deskflow/1 (8; BsdFlatPak)" is of the family Linux.
C16_Witness ==
    /\ rq[1].pc = "findVotes"
    /\ rq[1].req.userAgent = UaOf(<<"B","s","d","F","l","a","t","P","a","k">>)
    /\ rq[1].info.osFamily = <<"L","i","n","u","x">>

\* C17: a request of a recognized client that arrives without
\* cf-connecting-ip has its update fail (handleRequest logs the warning)
\* before the vote ledger or a monthly bucket is read or written, and its
\* response is the index with status 200, which is also the response of
\* every request for the index whose update went through.
C17_MissingAddressFailsTheUpdateOnly ==
    [][/\ (nreq' = nreq + 1 /\ includes(rq'[1].req.userAgent, Deskflow)
              /\ rq'[1].req.ip = None) =>
             /\ ~InfoOf[rq'[1].req].isNull
             /\ rq'[1].warned
             /\ rq'[1].pc = "done"
             /\ rq'[1].resp = Text(200, "index", <<>>)
             /\ rq'[1].statsPut = <<>> /\ ~rq'[1].votePut
             /\ UNCHANGED <<Stores, seen>>
       /\ (rq[1].pc /= "done" /\ rq'[1].pc = "done") =>
             rq'[1].resp = Text(200, "index", <<>>)
       /\ (rq[1].pc = "getStats" /\ rq'[1].pc = "done") =>
             (~rq'[1].warned /\ rq'[1].votePut /\ rq'[1].req.ip /= None)]_vars

\* "Deskflow/1 (8; Linux; ; en)" without an address: warned, answered 200,
\* and nothing was read or stored.
C17_Witness ==
    /\ rq[1].pc = "done"
    /\ rq[1].req = Get(<<"/">>, UaA, None)
    /\ rq[1].warned
    /\ rq[1].resp = Text(200, "index", <<>>)
    /\ votesStore = <<>> /\ slowStats = <<>> /\ seen = EmptyBag

\* C18: a failure of the update is caught where handleRequest calls it and
\* logged there as a warning; it is never left as a rejection that nothing
\* handles, and it never makes the response a 500.
C18_UpdateFailuresAreCaught ==
    \A p \in Procs :
        (rq[p].pc = "done" /\ UpdateStart(rq[p].req, InfoOf[rq[p].req]) = "throw") =>
            /\ rq[p].warned
            /\ ~rq[p].unhandled
            /\ rq[p].resp.status /= 500

\* C19: when the release resolver fails, the request ends there with the
\* 500 of the top-level handler; the resolver was called once in that request
\* and is not called again, and no store is written.
C19_ResolverFailureIs500 ==
    [][\A p \in Procs :
          /\ (rq[p].pc = "listReleases" /\ rq'[p] /= rq[p]) =>
                /\ rq[p].calls = 0 /\ rq'[p].calls = 1
                /\ UNCHANGED Stores
                /\ rq'[p].pc \in {"done", "kvPut"}
                /\ rq'[p].resp.status = 500 =>
                      /\ rq'[p].pc = "done"
                      /\ rq'[p].resp = ServerError(rq[p].req, "listReleases rejected")
                      /\ rq'[p].source = "none"
          /\ rq'[p].calls <= 1
          /\ (rq[p].pc = "done" /\ rq[p].resp.kind = "listReleases rejected"
              /\ nreq' = nreq) => rq'[p] = rq[p]]_vars

\* The resolver failed for one request: 500, one call, the store empty.
C19_Witness ==
    \E p \in Procs :
        /\ rq[p].pc = "done"
        /\ rq[p].resp = ServerError(rq[p].req, "listReleases rejected")
        /\ rq[p].calls = 1
        /\ kv = NoRecord /\ slowVersion = None

\* C20: the body of a 500 is made of the request's cf-ray header, or of
\* 'unknown' when the header is absent, and of fixed text that points to the
\* issue tracker: two requests that fail with the same request id get the
\* same body, whatever the two errors were.
C20_ServerErrorBodyByRequestId ==
    \A p \in Procs :
        rq[p].resp.status = 500 =>
            LET id == IF rq[p].req.ray = None
                      THEN <<"u","n","k","n","o","w","n">> ELSE rq[p].req.ray
                body == rq[p].resp.text
            IN  /\ body = message(id)
                /\ SubSeq(body, 60, 59 + Len(id)) = id
                /\ SubSeq(body, Len(body) - 6, Len(body)) = <<"/","i","s","s","u","e","s">>
                /\ \A q \in Procs :
                      (rq[q].resp.status = 500
                          /\ (rq[q].req.ray = None) = (rq[p].req.ray = None)
                          /\ (rq[q].req.ray /= None => rq[q].req.ray = rq[p].req.ray)) =>
                         rq[q].resp.text = body

\* Two requests without cf-ray failed, one on the test error, one on the
\* resolver: both got the body written for 'unknown'.
C20_Witness ==
    /\ rq[1].resp.status = 500 /\ rq[2].resp.status = 500
    /\ rq[1].req.ray = None /\ rq[2].req.ray = None
    /\ {rq[1].resp.kind, rq[2].resp.kind} = {"Test error", "listReleases rejected"}
    /\ rq[1].resp.text = rq[2].resp.text

\* C21: a version request with a non-empty ?fake value is answered 200 with
\* that value at once: the stores are not read (the request never waits for
\* getWithMetadata), the resolver is not called, and no record is written.
\* An empty ?fake value is no override: the lookup goes to the store.
C21_FakeIsEchoed ==
    [][(nreq' = nreq + 1 /\ startsWith(rq'[1].req.path, PathVersion)) =>
          /\ (rq'[1].req.fake /= None /\ rq'[1].req.fake /= <<>>) =>
                /\ rq'[1].pc = "done"
                /\ rq'[1].resp = Text(200, "version", rq'[1].req.fake)
                /\ rq'[1].calls = 0 /\ rq'[1].source = "none"
                /\ UNCHANGED Stores
          /\ (rq'[1].req.fake = None \/ rq'[1].req.fake = <<>>) => rq'[1].pc = "kvGet"]_vars

\* The store holds the version "1" of the tag "v1"; ?fake=9 was answered "9".
C21_Witness ==
    /\ kv.value = <<"1">>
    /\ rq[1].pc = "done" /\ rq[1].req.fake = <<"9">>
    /\ rq[1].resp = Text(200, "version", <<"9">>)
    /\ rq[1].calls = 0

\* C22: the secondary store's version is written only by a request whose
\* put into the primary store was rejected, and with the version of that
\* request: an accepted put ends the request, and the reads, the not-found
\* answers and a failure of the resolver leave the secondary version as it is.
C22_SecondaryWrittenOnlyAfterRejectedPut ==
    [][/\ slowVersion' /= slowVersion =>
             \E p \in Procs : /\ rq[p].pc = "slowSet002" /\ rq[p].putFailed
                              /\ rq'[p].pc = "done"
                              /\ slowVersion' = rq[p].version
       /\ \A p \in Procs :
             /\ rq'[p].pc = "slowSet002" => rq'[p].putFailed
             /\ (rq[p].pc /= "slowSet002" /\ rq'[p].pc = "slowSet002") =>
                   (rq[p].pc = "kvPut002" /\ ~kvAvailable /\ kv' = kv)
             /\ (rq[p].pc = "kvPut002" /\ rq'[p] /= rq[p] /\ kvAvailable) =>
                   (rq'[p].pc = "done" /\ ~rq'[p].putFailed /\ slowVersion' = slowVersion)
             /\ (rq[p].pc \in {"kvGet002", "slowGet002", "listReleases002"}
                 /\ rq'[p] /= rq[p]) =>
                   (rq'[p].pc /= "slowSet002" /\ slowVersion' = slowVersion)]_vars

\* The secondary store holds the version of a rejected put, the primary
\* store the version of a later accepted put, and a resolver failure was
\* answered: the secondary version is still the first one.
C22_Witness ==
    /\ slowVersion /= None
    /\ kv /= NoRecord /\ kv.value /= slowVersion
    /\ \E p \in Procs : rq[p].pc = "done" /\ rq[p].resp.kind = "listReleases rejected"

\* C23: the record under 'latest' changes only when a version request that
\* missed the cache and resolved a version has its put answered; the record
\* then holds that version and the time of the put as fetchedAt; a record is
\* never taken away; and no step of a request for the index or for /stats,
\* and no step of the vote update, changes it.
C23_LatestWrittenOnlyByRefresh ==
    [][/\ kv' /= kv =>
             /\ rq[1].pc = "kvPut" /\ rq'[1].pc = "done"
             /\ startsWith(rq[1].req.path, PathVersion)
             /\ rq[1].calls = 1 /\ rq[1].version /= None
             /\ kv'.value = rq[1].version
             /\ kv'.metadata = <<[fetchedAt |-> toISOString(now)]>>
             /\ getTime(kv'.metadata[1].fetchedAt) = now
       /\ kv /= NoRecord => (kv' /= NoRecord /\ kv'.metadata /= <<>>)
       /\ (~startsWith(rq[1].req.path, PathVersion) /\ rq'[1] /= rq[1] /\ nreq' = nreq) =>
             kv' = kv
       /\ (rq[1].pc \in {"findVotes", "getStats", "statsThis", "statsLast"}
           \/ rq[1].statsPut /= <<>> \/ rq[1].votePut) => kv' = kv]_vars

\* A record was put on a later day than the start; after it a vote was
\* stored and /stats was answered.
C23_Witness ==
    /\ kv /= NoRecord /\ getTime(kv.metadata[1].fetchedAt) > StartTime
    /\ votesStore /= <<>> /\ slowStats /= <<>>
    /\ rq[1].pc = "done" /\ rq[1].resp.kind = "stats"

\* C24: a user agent that matches /Deskflow\/(.+) \((.+)\)/ and whose
\* parenthesized part does not split into four fields makes the parser throw:
\* the update of its request ends with the warning of handleRequest, and the
\* request never goes on to the ledger with what was parsed.
C24_UndecomposableIsAnError ==
    (rq[1].pc /= "idle" /\ Truthy(rq[1].req.userAgent)
        /\ Rfc9110Test(rq[1].req.userAgent)
        /\ Len(split(Rfc9110Group2(rq[1].req.userAgent), ";")) /= 4) =>
       /\ rq[1].pc = "done"
       /\ rq[1].warned
       /\ rq[1].statsPut = <<>> /\ ~rq[1].votePut

C26_FormatByPatternOnly ==
    [][(nreq' = nreq + 1 /\ rq'[1].req.ip /= None) =>
          LET request == rq'[1].req
              info    == rq'[1].info
              Bsd     == <<"B","s","d">>
          IN  /\ request.userAgent = UaA =>
                    /\ rq'[1].pc = "findVotes"
                    /\ info.os = <<"8">> /\ info.osFamily = <<"L","i","n","u","x">>
                    /\ info.appLanguage = <<"e","n">> /\ info.appVersion = <<>>
              /\ request.userAgent = UaB =>
                    /\ rq'[1].pc = "findVotes"
                    /\ info.os = <<"7">> /\ info.osFamily = <<"m","a","c","O","S">>
                    /\ info.appLanguage = None /\ info.appVersion = None
              /\ request.userAgent \in {UaLegacy(Bsd), UaLegacy(<<"x"," ","o","n"," ">> \o Bsd)} =>
                    /\ rq'[1].pc = "findVotes"
                    /\ info.os = Bsd /\ info.osFamily = <<"B","S","D">>
                    /\ info.appLanguage = request.language
                    /\ info.appVersion = request.version]_vars

\* A structured user agent came with both headers and kept its own language;
\* the parse shows at the ledger read.
C26_Witness ==
    /\ rq[1].pc = "findVotes"
    /\ rq[1].req.userAgent = UaA
    /\ rq[1].req.language = <<"d","e">> /\ rq[1].req.version = <<"2">>
    /\ rq[1].info.appLanguage = <<"e","n">> /\ rq[1].info.appVersion = <<>>

\* C27: the list stored for a requester key only grows: a step leaves it
\* as it is, or leaves every entry in place and adds one entry at the end; a
\* key that has a list keeps one.
C27_LedgerOnlyGrows ==
    [][\A ip \in DOMAIN votesStore :
          /\ ip \in DOMAIN votesStore'
          /\ \/ votesStore'[ip] = votesStore[ip]
             \/ /\ Len(votesStore'[ip]) = Len(votesStore[ip]) + 1
                /\ SubSeq(votesStore'[ip], 1, Len(votesStore[ip])) = votesStore[ip]]_vars

\* C28: the increment is a read and a later write with nothing in between
\* that ties them: the bucket a request sends has the vote count it read plus
\* one, and the write stores that bucket whatever the store holds by then.
C28_IncrementIsReadThenWrite ==
    [][\A p \in Procs :
          /\ (rq[p].pc = "getStats" /\ rq'[p] /= rq[p]) =>
                /\ rq'[p].statsPut /= <<>>
                /\ VotesOf(JSONparse(rq'[p].statsPut[1])) = StoredVotes(rq[p].monthKey) + 1
                /\ slowStats' = slowStats
          /\ (rq[p].statsPut /= <<>> /\ rq'[p].statsPut = <<>>) =>
                /\ slowStats'[rq[p].monthKey] = rq[p].statsPut[1]
                /\ VotesOf(JSONparse(slowStats'[rq[p].monthKey])) =
                      VotesOf(JSONparse(rq[p].statsPut[1]))]_vars

\* The bucket of the month holds the vote count 2 and the os "7" once, and a
\* request of another requester, which read the bucket when it was empty, has
\* its write on the way: a bucket with the vote count 1 and without that os.
C28_Witness ==
    \E p, q \in Procs :
        /\ p /= q
        /\ rq[p].req.ip /= rq[q].req.ip
        /\ rq[p].statsPut /= <<>>
        /\ VotesOf(JSONparse(rq[p].statsPut[1])) = 1
        /\ CountOf(JSONparse(rq[p].statsPut[1]).os, <<"7">>) = 0
        /\ StoredVotes(rq[p].monthKey) = 2
        /\ CountOf(JSONparse(slowStats[rq[p].monthKey]).os, <<"7">>) = 1

\* C29: every bucket stored has a vote count of at least 0, every value in
\* its four category mappings has a count that is a natural number and at
\* least 1, and a month that has a bucket keeps one.  (No bucket is stored at
\* the start, so it is enough to look at the buckets after every step that
\* changes the store.)
C29_CountsNeverNegativeBucketsKept ==
    [][slowStats' /= slowStats =>
       /\ DOMAIN slowStats \subseteq DOMAIN slowStats'
       /\ \A monthKey \in DOMAIN slowStats' :
             LET stats == JSONparse(slowStats'[monthKey])
             IN  /\ VotesOf(stats) \in Nat
                 /\ \A category \in Categories :
                       \A value \in Keys(stats[category]) :
                          /\ CountOf(stats[category], value) \in Nat
                          /\ CountOf(stats[category], value) >= 1]_vars

\* The buckets of December 2024 and of January 2025 are both stored, each
\* with one vote.
C29_Witness ==
    /\ DOMAIN slowStats = {<<2024, 12>>, <<2025, 1>>}
    /\ \A monthKey \in DOMAIN slowStats : StoredVotes(monthKey) = 1
    /\ Quiet

\* C30: /stats reports thisMonth under the month key of the date of the
\* request and lastMonth under the key of the calendar month that ends where
\* that month begins (December of the year before for January), and a vote
\* counted at a date is added to the bucket of the month key of that date and
\* to no other bucket.
C30_MonthsOfStatsAndVotes ==
    [][/\ (nreq' = nreq + 1 /\ rq'[1].pc = "statsThis") =>
             rq'[1].thisMonthKey = isoMonth(toISOString(now))
       /\ (rq[1].pc = "statsThis" /\ rq'[1] /= rq[1]) =>
             /\ rq'[1].thisMonthKey = rq[1].thisMonthKey
             /\ ReadSorted(rq'[1].thisMonth[1], rq[1].thisMonthKey)
       /\ (rq[1].pc = "statsLast" /\ rq'[1] /= rq[1]) =>
             LET ym    == rq[1].thisMonthKey
                 first == getTime([date |-> <<ym[1], ym[2], 1>>, time |-> 0])
                 last  == isoMonth(toISOString(first - 1))
             IN  /\ rq'[1].resp.stats[1].date = ym
                 /\ rq'[1].resp.stats[1].data = rq[1].thisMonth[1]
                 /\ rq'[1].resp.stats[2].date = last
                 /\ ReadSorted(rq'[1].resp.stats[2].data, last)
       /\ (rq[1].pc = "findVotes" /\ rq'[1].pc = "getStats") =>
             rq'[1].monthKey = isoMonth(toISOString(now))
       /\ (rq[1].pc = "getStats" /\ rq'[1] /= rq[1]) =>
             rq'[1].monthKey = rq[1].monthKey
       /\ slowStats' /= slowStats =>
             /\ rq[1].monthKey \in DOMAIN slowStats'
             /\ VotesOf(JSONparse(slowStats'[rq[1].monthKey])) = StoredVotes(rq[1].monthKey) + 1
             /\ \A monthKey \in DOMAIN slowStats' \ {rq[1].monthKey} :
                   /\ monthKey \in DOMAIN slowStats
                   /\ slowStats'[monthKey] = slowStats[monthKey]]_vars

\* A /stats request of January 2025 was answered after one vote of December
\* 2024 and one of January: each month is reported under its key with its
\* one vote.
C30_Witness ==
    /\ rq[1].pc = "done"
    /\ rq[1].resp.kind = "stats"
    /\ rq[1].resp.stats[1].date = <<2025, 1>>
    /\ rq[1].resp.stats[2].date = <<2024, 12>>
    /\ rq[1].resp.stats[1].data.votes = <<1>>
    /\ rq[1].resp.stats[2].data.votes = <<1>>

\* The sum of the counts of the entries of a stored category mapping, all
\* of them numbers.
RECURSIVE SumOfCounts(_)
SumOfCounts(entries) ==
    IF entries = <<>> THEN 0
    ELSE entries[1][2] + SumOfCounts(Tail(entries))

\* C31: in every state, with requests handled concurrently too, every stored
\* monthly bucket has, for each of its four categories, a sum of counts that
\* is at most its vote count, and a vote count that is at most the sum of
\* the counts of the four categories together.  (A count that is not a
\* number has no sum that is at most, or at least, a vote count.)
C31_CategorySumsBoundTheVotes ==
    \A monthKey \in DOMAIN slowStats :
        LET text   == slowStats[monthKey]
            fields == {i \in 1..Len(text) : text[i][1] \in Categories}
            IsSum(entries) == \A n \in 1..Len(entries) : IsNumber(entries[n][2])
            sum[i \in fields] == SumOfCounts(text[i][2])
            total[S \in SUBSET fields] ==
                IF S = {} THEN 0
                ELSE LET i == CHOOSE j \in S : TRUE IN sum[i] + total[S \ {i}]
        IN  /\ \A i \in fields : IsSum(text[i][2])
            /\ \A i \in fields : sum[i] <= StoredVotes(monthKey)
            /\ StoredVotes(monthKey) <= total[fields]

\* Three votes of one month were handled two at a time and one increment
\* was lost: the bucket has 2 votes, its language mapping sums to less than
\* that, and the four mappings together to more.
C31_Witness ==
    /\ Quiet
    /\ nreq = 3
    /\ \E monthKey \in DOMAIN slowStats :
          LET stats == JSONparse(slowStats[monthKey])
          IN  /\ VotesOf(stats) = 2
              /\ \A value \in Keys(stats.language) : CountOf(stats.language, value) = 1
              /\ Cardinality(Keys(stats.language)) = 1
              /\ Cardinality(Keys(stats.os)) = 2

\* C32: with requests handled one at a time, from empty stores and without a
\* failing storage operation, whenever no request is being handled the vote
\* count of each month is the number of entries of the ledger, over all
\* requester keys, whose timestamp lies in that month, and the ledger has no
\* two entries of one requester key with the same identity string and the
\* same calendar date.
C32_VotesMatchTheLedger ==
    Quiet =>
        LET entries == {e \in (DOMAIN votesStore) \X (1..MaxSeqRequests) :
                            e[2] <= Len(votesStore[e[1]])}
            vote(e) == votesStore[e[1]][e[2]]
        IN  /\ \A monthKey \in DOMAIN slowStats
                                \cup {isoMonth(vote(e).isoDateText) : e \in entries} :
                   StoredVotes(monthKey)
                      = Cardinality({e \in entries : isoMonth(vote(e).isoDateText) = monthKey})
            /\ \A e, f \in entries :
                   (/\ e[1] = f[1]
                    /\ vote(e).userAgent = vote(f).userAgent
                    /\ isoDay(vote(e).isoDateText) = isoDay(vote(f).isoDateText)) => e = f

\* What a step does with the update of a client that is recognized and has
\* an address, whatever the path: the request begins with the update and has
\* no response before it; the update counts the vote when the ledger has no
\* entry of the client of that day, and the route is taken after it; and once
\* every write has landed the month has one vote and the ledger one entry.
UpdateComesFirst ==
    /\ nreq' = nreq + 1 =>
          /\ rq'[1].pc = "findVotes"
          /\ rq'[1].resp = NoResponse
    /\ (rq[1].pc = "findVotes" /\ rq'[1] /= rq[1]) =>
          IF Ledger(rq[1].req.ip) = <<>>
          THEN rq'[1].pc = "getStats"
          ELSE ~rq'[1].counted /\ rq'[1].pc /= "getStats"
    /\ (rq[1].pc = "getStats" /\ rq'[1] /= rq[1]) =>
          /\ rq'[1].counted
          /\ rq'[1].statsPut /= <<>>
          /\ VotesOf(JSONparse(rq'[1].statsPut[1])) = StoredVotes(rq[1].monthKey) + 1
          /\ rq'[1].pc = route(rq[1], now).pc
    /\ (Quiet /\ nreq >= 1)' =>
          /\ StoredVotes(<<2024, 12>>)' = 1
          /\ Len(Ledger(IpA))' = 1

\* C33: the update of the vote begins with every request, before the route
\* and whatever the path, so a client that is recognized and not yet counted
\* is counted once by a request for the index, the version (with ?fake too),
\* the statistics or a path that is not served; and the statistics of a
\* request report its own vote when the write of the bucket, which the
\* update sends without awaiting it, has landed before the statistics read
\* the bucket.
C33_CountedOnEveryPath ==
    [][/\ UpdateComesFirst
       /\ (rq[1].pc = "statsThis" /\ rq'[1].pc = "statsLast"
             /\ rq[1].counted /\ rq[1].statsPut = <<>>) =>
             rq'[1].thisMonth[1].votes = <<1>>]_vars

\* C33 as stated: the statistics of a request whose update has returned
\* report its own vote in every case.
C33_StatsHaveTheOwnVote ==
    [][/\ UpdateComesFirst
       /\ (rq[1].pc = "statsThis" /\ rq'[1].pc = "statsLast" /\ rq[1].counted) =>
             rq'[1].thisMonth[1].votes = <<1>>]_vars

\* The first request of a client was for /stats; the write of the bucket
\* landed before the statistics were read, and the response reports the
\* vote of the request.
C33_Witness ==
    /\ nreq = 1
    /\ rq[1].pc = "done"
    /\ rq[1].req.path = PathStats
    /\ rq[1].resp.kind = "stats"
    /\ rq[1].resp.stats[1].data.votes = <<1>>
    /\ StoredVotes(<<2024, 12>>) = 1

\* C34: the update sends the write of the bucket and the write of the ledger
\* together when it returns, and each is a write of one key of one store:
\* the write of the bucket changes the bucket of the month and nothing of the
\* ledger, the write of the ledger changes the list of the requester key and
\* nothing of the buckets.  When the ledger write is rejected after the
\* bucket write has landed, the bucket keeps the increment and the ledger is
\* as it was, so the next request with the same requester key and identity
\* string on the same day finds no entry and is counted again.
C34_BucketKeptWhenLedgerWriteFails ==
    [][/\ (rq[1].pc = "getStats" /\ rq'[1] /= rq[1]) =>
             /\ rq'[1].statsPut /= <<>> /\ rq'[1].votePut
             /\ UNCHANGED Stores
       /\ slowStats' /= slowStats =>
             /\ votesStore' = votesStore
             /\ \A k \in DOMAIN slowStats : k /= rq[1].monthKey =>
                    k \in DOMAIN slowStats' /\ slowStats'[k] = slowStats[k]
             /\ VotesOf(JSONparse(slowStats'[rq[1].monthKey])) = StoredVotes(rq[1].monthKey) + 1
       /\ votesStore' /= votesStore =>
             /\ slowStats' = slowStats
             /\ \A k \in DOMAIN votesStore : k /= rq[1].req.ip =>
                    k \in DOMAIN votesStore' /\ votesStore'[k] = votesStore[k]
       /\ (rq[1].votePut /\ ~rq'[1].votePut /\ votesStore' = votesStore
             /\ rq[1].statsPut = <<>>) =>
             /\ slowStats' = slowStats
             /\ StoredVotes(rq[1].monthKey) >= 1
             /\ ~hasVoted(Ledger(rq[1].req.ip), rq[1].req.userAgent, now)
       /\ (rq[1].pc = "findVotes" /\ rq'[1] /= rq[1]
             /\ ~hasVoted(Ledger(rq[1].req.ip), rq[1].req.userAgent, now)) =>
             rq'[1].pc = "getStats"]_vars

\* Two requests of one requester key and identity string on one day: the
\* ledger write of the first was rejected after its bucket write, the second
\* was counted again, and the month has 2 votes for one entry in the ledger.
C34_Witness ==
    /\ Quiet
    /\ nreq = 2
    /\ ticks = 0
    /\ Cardinality(Asked) = 1
    /\ StoredVotes(<<2024, 12>>) = 2
    /\ Len(Ledger(IpA)) = 1

\* The calls of the release resolver that returned a release that was used.
Resolved == {e \in BagToSet(seen) : e.ev = "resolved"}

\* C35: with /version requests handled one at a time and a primary store
\* that takes every write, any two calls of the release resolver that each
\* returned a usable release are at least cacheAgeSeconds apart, and a window
\* of W seconds has at most ceil(W / cacheAgeSeconds) + 1 of them.
C35_ResolutionsAreTtlApart ==
    /\ \A e \in Resolved : CopiesIn(e, seen) = 1
    /\ \A e, f \in Resolved :
          e.stamp < f.stamp => f.stamp - e.stamp >= cacheAgeSeconds
    /\ \A e, f \in Resolved :
          e.stamp <= f.stamp =>
             LET W == f.stamp - e.stamp
             IN  Cardinality({g \in Resolved : e.stamp <= g.stamp /\ g.stamp <= f.stamp})
                    <= (W + cacheAgeSeconds - 1) \div cacheAgeSeconds + 1

\* Three requests were answered: the first resolved at StartTime, the second
\* was served from the record one second before its lifetime ended, the
\* third resolved again exactly cacheAgeSeconds after the first.
C35_Witness ==
    /\ Quiet
    /\ nreq = 3
    /\ now = StartTime + cacheAgeSeconds
    /\ {e.stamp : e \in Resolved} = {StartTime, StartTime + cacheAgeSeconds}
    /\ rq[1].source = "none"
    /\ rq[1].resp.status = 200
    /\ kv.metadata /= <<>>
    /\ getTime(kv.metadata[1].fetchedAt) = now

\* C36: with concurrent /version requests, every request that reads the
\* primary store while it has no record or a record whose lifetime has ended
\* goes on to call the release resolver itself, and when the resolver
\* returns a usable release it goes on to write the primary store itself;
\* its write stores its own version with the time of the write whatever the
\* store holds by then, so the record that stays is that of the write that
\* lands last.
C36_EveryStaleReaderRefreshes ==
    [][\A p \in Procs :
          /\ (/\ rq[p].pc = "kvGet" /\ rq'[p] /= rq[p]
              /\ \/ ~Truthy(kv.value)
                 \/ /\ kv.metadata /= <<>>
                    /\ now - getTime(kv.metadata[1].fetchedAt) >= cacheAgeSeconds) =>
                /\ rq'[p].pc = "listReleases"
                /\ kv' = kv
          /\ (rq[p].pc = "listReleases" /\ rq'[p] /= rq[p]) =>
                /\ rq'[p].calls = rq[p].calls + 1
                /\ kv' = kv
                /\ LET usable == filterReleases(listReleases(releases, releasesPerPage))
                   IN  usable /= <<>> =>
                          /\ rq'[p].pc = "kvPut"
                          /\ rq'[p].version = StripV(usable[1])
          /\ (rq[p].pc = "kvPut" /\ rq'[p] /= rq[p] /\ kvAvailable) =>
                /\ kv'.value = rq[p].version
                /\ getTime(kv'.metadata[1].fetchedAt) = now
                /\ rq'[p].resp = Text(200, "version", rq[p].version)]_vars

\* Two requests read the empty store at the same time; each called the
\* resolver, one before and one after release 2 was published, and each
\* wrote the store.  The write of the request that resolved first landed
\* last: the store has version 1 although version 2 is the latest release
\* and was stored before.
C36_Witness ==
    /\ Quiet
    /\ nreq = 2
    /\ ticks = 0
    /\ rq[1].calls = 1 /\ rq[2].calls = 1
    /\ rq[1].resp = Text(200, "version", <<"1">>)
    /\ rq[2].resp = Text(200, "version", <<"2">>)
    /\ releases = << <<"2">>, <<"v", "1">> >>
    /\ kv.value = <<"1">>

\* The response is one of the two 404 of version(): no releases, or no
\* releases except 'continuous'.
IsNotFound(resp) ==
    resp.status = 404 /\ resp.kind \in {"noReleases", "noReleasesExceptContinuous"}

\* C37: a /version request that ends in one of the two 404 of version()
\* writes neither the primary nor the secondary store of the version: its
\* reads and its resolver call leave both as they are, so a record of the
\* primary store whose lifetime had ended is still there, unchanged; and
\* after the 404 the primary store has no record within its lifetime and the
\* secondary store has no version, so the next /version request goes through
\* both reads to the release resolver again.
C37_NotFoundWritesNothing ==
    [][/\ (rq[1].pc \in {"kvGet002", "slowGet002", "listReleases002"} /\ rq'[1] /= rq[1]) =>
             /\ kv' = kv
             /\ slowVersion' = slowVersion
       /\ (rq[1].pc = "listReleases002" /\ rq'[1] /= rq[1]
             /\ filterReleases(listReleases(releases, releasesPerPage002)) = <<>>) =>
             /\ rq'[1].pc = "done"
             /\ IsNotFound(rq'[1].resp)
       /\ (rq'[1].pc = "done" /\ IsNotFound(rq'[1].resp)) =>
             /\ ~Truthy(slowVersion')
             /\ \/ ~Truthy(kv'.value)
                \/ now' - getTime(kv'.metadata[1].fetchedAt) >= cacheAgeSeconds002
       /\ (rq[1].pc = "kvGet002" /\ rq'[1] /= rq[1]
             /\ \/ ~Truthy(kv.value)
                \/ now - getTime(kv.metadata[1].fetchedAt) >= cacheAgeSeconds002) =>
             rq'[1].pc = "slowGet002"
       /\ (rq[1].pc = "slowGet002" /\ rq'[1] /= rq[1] /\ ~Truthy(slowVersion)) =>
             rq'[1].pc = "listReleases002"
       /\ (rq[1].pc = "listReleases002" /\ rq'[1] /= rq[1]) =>
             rq'[1].calls = rq[1].calls + 1]_vars

\* Version 1 was stored at StartTime and its release was deleted upstream;
\* the third request came when the lifetime of the record had ended, called
\* the resolver and ended in 404: the record of StartTime is still in the
\* primary store and the secondary store has nothing.
C37_Witness ==
    /\ nreq = 3
    /\ rq[1].pc = "done"
    /\ IsNotFound(rq[1].resp)
    /\ rq[1].calls = 1
    /\ kv = Record(<<"1">>, StartTime)
    /\ now = StartTime + cacheAgeSeconds002
    /\ slowVersion = None

=============================================================================
